---- MODULE Spec2Model ----
(***************************************************************************)
(* Model of the rocketdocs documentation pipeline: the document store      *)
(* (DataService), the identifier's output, the repository scheduler        *)
(* (DocumentationService.generate_repo_docs_background_task), the document *)
(* generator (DocumentationService.generate_doc) and the single-file jobs  *)
(* (enqueue_generate_file_doc_job, regenerate_doc).                        *)
(*                                                                         *)
(* Conventions.  Python None is the string None for string-valued fields   *)
(* and NoneId (0) for document ids.  A stored document is a record over    *)
(* all fields of FirestoreDoc; a field Firestore does not hold reads back  *)
(* as None (the pydantic default).  The event loop is single threaded: a   *)
(* coroutine runs without interleaving from one await to the next, apart   *)
(* from the store writes, which are separate steps so that every status    *)
(* written is observable.                                                  *)
(***************************************************************************)
EXTENDS Integers, Sequences, FiniteSets, TLC

----------------------------------------------------------------------------
(* Bounds of the model *)

\* largest number of documents of an identified repository
MaxDocs == 4
\* the batch_size argument of _run_concurrently; the scheduler passes 30
\* (documentation_service.py:192), scaled down so that a round can hold
\* more leaves than one batch
BatchSize == 2
\* largest number of documents of a repository when the single-file routes
\* run alongside the repository pipeline (Spec)
SmallDocs == 3
\* number of generation requests (POST /repos, POST /repos/{id}/generate)
MaxRuns == 2
\* number of single-file background jobs (POST /file-docs, PUT /file-docs/{id})
MaxFileJobs == 2
\* the largest source tree in the specification with deletions
DeleteDocs == 2

\* the largest number of entries of a source tree that identify walks
MaxEntries == 3

\* the smallest and the largest number of documents of a repository that
\* batch_create_repo stores: up to one more than fits with the repository in
\* one batch
MinBatchDocs == 451

MaxBatchDocs == 500

\* the longest text that is chunked, in characters
MaxText == 6

\* the chunk sizes and chunk minimums of the chunkers, in tokens, the two
\* special tokens included
ChunkSizes == {4, 5, 6}

ChunkMinimums == {3, 4}

\* the largest number of hits of one search
MaxHits == 3

\* the largest number of chunks of a document that is embedded on its own:
\* one more than two full groups of chunks
MaxChunks == 4097

----------------------------------------------------------------------------
(* Values *)

None == "None"
NoneId == 0

NOT_STARTED == "NOT STARTED"
IN_PROGRESS == "IN PROGRESS"
COMPLETED == "COMPLETED"
FAILED == "FAILED"
StatusEnum == {NOT_STARTED, IN_PROGRESS, COMPLETED, FAILED}

FILE == "file"
DIRECTORY == "dir"

RepoId == "repo"
Users == {"u1"}

DocIds == 1..MaxDocs
\* id handed out by add_documentation for the single-file document
FileDocId == MaxDocs + 1

\* URLs: a file page (…/blob/<ref>/<path>) or a directory/repository page
BlobUrl == "github.com/o/r/blob/main/f"
TreeUrl == "github.com/o/r/tree/main/d"

Fields == {"id", "github_url", "relative_path", "type", "size", "extracted_data",
           "markdown_content", "usage", "status", "repo", "owner"}

\* BaseModel.model_dump(): every field, unset ones with their default None
model_dump(m) == [f \in Fields |-> IF f \in DOMAIN m THEN m[f] ELSE None]

\* BaseModel.model_dump(exclude_unset=True): only the fields that were set
model_dump_exclude_unset(m) == m

\* FirestoreDoc(**document_dict): missing keys take the default None
FirestoreDoc(dict) == [f \in Fields |-> IF f \in DOMAIN dict THEN dict[f] ELSE None]

\* DocumentReference.update(data): overwrites exactly the keys of data
FirestoreUpdate(stored, data) ==
    [f \in DOMAIN stored \cup DOMAIN data |-> IF f \in DOMAIN data THEN data[f] ELSE stored[f]]

\* DataService._update: a BaseModel argument is dumped with model_dump(),
\* a dict is written as it is.  isModel tells which one the caller passed.
_update(collection, document_id, isModel, data) ==
    [collection EXCEPT ![document_id] =
        FirestoreUpdate(@, IF isModel THEN model_dump(data) ELSE data)]

\* DataService.update_documentation
update_documentation(collection, doc_id, isModel, data) ==
    _update(collection, doc_id, isModel, data)

\* DataService.update_repo: a scoped update of the repository's status
update_repo(collection, repo_id, status) ==
    [collection EXCEPT ![repo_id].status = status]

----------------------------------------------------------------------------
(* Text returned by the LLM *)

\* the Markdown completions the model can return
MarkdownTexts == {"", " ", "# a", " # a"}

\* a text as its sequence of characters
Chars(s) ==
    CASE s = "" -> <<>>
      [] s = " " -> <<" ">>
      [] s = "# a" -> <<"#", " ", "a">>
      [] s = " # a" -> <<" ", "#", " ", "a">>

Text(cs) == CHOOSE s \in MarkdownTexts : Chars(s) = cs

\* the JSON completions the model can return
JsonTexts == {"{\"description\": \"d\"}", "{}", "not json"}

\* json.loads: the parsed dict, here the value of its description key
\* (Missing when the key is absent); ok is FALSE on JSONDecodeError
_parse_json(json_string) ==
    CASE json_string = "{\"description\": \"d\"}" -> [ok |-> TRUE, dict |-> "{description: d}"]
      [] json_string = "{}" -> [ok |-> TRUE, dict |-> "{}"]
      [] OTHER -> [ok |-> FALSE, dict |-> None]

\* dict.get('description')
Description(dict) == IF dict = "{description: d}" THEN "d" ELSE None

----------------------------------------------------------------------------
(* State *)

VARIABLES
    documentation,  \* the "documentation" collection: doc id -> stored FirestoreDoc
    repos,          \* the "repos" collection: repo id -> stored FirestoreRepo
    runs,           \* the background runs of generate_repo_docs_background_task
    fileJobs,       \* the background runs of generate_file_doc_background_task
    response,       \* the response sent by the step that led here (NoResponse
                    \* when that step was background work)
    chat,           \* the one call of ChatService.chat: its position, its
                    \* chat_history and the events it has yielded
    walk,           \* the one call of IdentifierService.identify on a source
                    \* tree: its position and its local variables
    batch,          \* the one call of DataService.batch_create_repo on a large
                    \* repository: its position and the operations committed
    chunker,        \* a TextChunker, the text and the separator list it is
                    \* called with, and what its calls returned
    embed,          \* the one call of the embedding service: its position, its
                    \* local variables and the requests it has made
    vectors,        \* the vector index: namespace -> ids of the stored vectors
    retrieval       \* the one call of ChatService.search: the hits it was
                    \* given, the documents it kept and what it returned

vars == <<documentation, repos, runs, fileJobs, response, chat, walk, batch, chunker,
          embed, vectors, retrieval>>

\* The state of the documentation pipeline, left alone by the other services.
storeVars == <<documentation, repos, runs, fileJobs, response>>

\* The state of the services that run beside the documentation pipeline.
toolVars == <<chat, walk, batch, chunker, embed, vectors, retrieval>>

\* what the chat service, the identifier and the batch writer leave alone
otherThanChat == <<storeVars, walk, batch, chunker, embed, vectors, retrieval>>

otherThanWalk == <<chat, batch, chunker, embed, vectors, retrieval>>

otherThanBatch == <<runs, fileJobs, response, chat, walk, chunker, embed, vectors, retrieval>>

otherThanChunker == <<storeVars, chat, walk, batch, embed, vectors, retrieval>>

otherThanEmbed == <<storeVars, chat, walk, batch, chunker, retrieval>>

otherThanRetrieval == <<repos, runs, fileJobs, response, chat, walk, batch, chunker, embed, vectors>>

Respond(op, id, code) == [op |-> op, id |-> id, code |-> code]

NoResponse == Respond(None, NoneId, 0)

----------------------------------------------------------------------------
(* IdentifierService.identify: its output for a source tree *)

\* the dependencies maps identify can produce, as the sequence of parents in
\* the order of creation (breadth first): the root comes first and maps to
\* None, a child is created after its parent.  A tree of one node is never
\* produced: a root without documentable file is pruned from docs.
IsTree(p) ==
    /\ Len(p) # 1
    /\ \A i \in 1..Len(p) : IF i = 1 THEN p[i] = NoneId ELSE p[i] \in 1..(i - 1)
    /\ \A i \in 3..Len(p) : p[i - 1] <= p[i]

Trees == {p \in UNION {[1..n -> 0..MaxDocs] : n \in 0..MaxDocs} : IsTree(p)}

HasChild(p, d) == \E c \in 1..Len(p) : p[c] = d

\* the FirestoreDoc identify creates for node d of tree p
IdentifiedDoc(p, d, user_id) ==
    FirestoreDoc(
        [id |-> ToString(d),
         github_url |-> IF HasChild(p, d) THEN TreeUrl ELSE BlobUrl,
         relative_path |-> IF d = 1 THEN "" ELSE "path",
         type |-> IF HasChild(p, d) THEN DIRECTORY ELSE FILE,
         size |-> IF HasChild(p, d) THEN None ELSE "size",
         status |-> NOT_STARTED,
         repo |-> RepoId,
         owner |-> user_id])

\* the FirestoreRepo identify returns and stores
identify(p, user_id) ==
    [id |-> RepoId,
     repo_name |-> "o/r",
     root_doc |-> 1,
     status |-> NOT_STARTED,
     dependencies |-> [d \in 1..Len(p) |-> p[d]],
     docs |-> [d \in 1..Len(p) |-> IdentifiedDoc(p, d, user_id)],
     version |-> None,
     owner |-> user_id]

\* DataService.batch_create_repo: the repository record and one record per document
batch_create_repo(repo) ==
    /\ repos' = [r \in DOMAIN repos \cup {repo.id} |-> IF r = repo.id THEN repo ELSE repos[r]]
    /\ documentation' = [d \in DOMAIN documentation \cup DOMAIN repo.docs |->
                            IF d \in DOMAIN repo.docs THEN repo.docs[d] ELSE documentation[d]]

----------------------------------------------------------------------------
(* DocumentationService.generate_repo_docs_background_task *)

IdSeq == [i \in 1..MaxDocs |-> i]

EmptyMap == [d \in {} |-> 0]

\* a coroutine generate_doc(leaf, ...) that has not run yet
IdleTask == [pc |-> "idle", doc |-> FirestoreDoc(EmptyMap), json_content |-> None]

\* a background task as add_task queued it, holding the FirestoreRepo object
\* the request handler passed.  calls, completed, failed and writes record
\* what the run did: the number of generate_doc invocations per document,
\* the documents it completed, the documents whose generate_doc raised, and
\* per document the status found followed by the statuses written.  round
\* counts the iterations of the while loop that were entered.
NewRun(firestore_repo) ==
    [pc |-> "queued",
     firestore_repo |-> firestore_repo,
     children_graph |-> EmptyMap,
     indegree |-> EmptyMap,
     leaves |-> <<>>,
     i |-> 0,
     round |-> 0,
     gen |-> EmptyMap,
     calls |-> [d \in DocIds |-> 0],
     completed |-> {},
     failed |-> {},
     writes |-> [d \in DocIds |-> <<>>],
     error |-> None]

\* faulty variant of _validate_repo: a repository already IN_PROGRESS passes
_validate_repo_without_busy_check(repo) ==
    DOMAIN repo.dependencies = {} \/ repo.root_doc = NoneId

\* _validate_repo: TRUE when it raises
_validate_repo(repo) ==
    \/ DOMAIN repo.dependencies = {} \/ repo.root_doc = NoneId
    \/ repo.status = IN_PROGRESS

\* children_graph: a key per value of dgraph (None included), holding the
\* children in the order of dgraph
ChildrenGraph(dgraph) ==
    [parent \in {dgraph[c] : c \in DOMAIN dgraph} |->
        SelectSeq(IdSeq, LAMBDA c : c \in DOMAIN dgraph /\ dgraph[c] = parent /\ parent # NoneId)]

\* indegree: the number of children of each node
Indegree(dgraph) ==
    [node \in DOMAIN dgraph |-> Cardinality({c \in DOMAIN dgraph : dgraph[c] = node})]

\* faulty variant of Leaves: a node with one unprocessed child counts as a leaf
LeavesDegreeAtMostOne(indegree) ==
    SelectSeq(IdSeq, LAMBDA node : node \in DOMAIN indegree /\ indegree[node] <= 1)

\* leaves = [node for node, degree in indegree.items() if degree == 0]
Leaves(indegree) ==
    SelectSeq(IdSeq, LAMBDA node : node \in DOMAIN indegree /\ indegree[node] = 0)

\* children_graph.get(leaf), None read as [] by generate_doc
Dependencies(children_graph, leaf) ==
    IF leaf \in DOMAIN children_graph THEN children_graph[leaf] ELSE <<>>

\* faulty variant of PopLeaf: the parent's in-degree is not decremented
PopLeafNoDecrement(indegree, dgraph, leaf) ==
    [n \in DOMAIN indegree \ {leaf} |-> indegree[n]]

\* faulty variant of PopLeaf: a processed leaf other than the root stays in
\* the in-degree map
PopLeafNoPop(indegree, dgraph, leaf) ==
    LET parent == dgraph[leaf]
    IN  IF parent = NoneId THEN [n \in DOMAIN indegree \ {leaf} |-> indegree[n]]
        ELSE [indegree EXCEPT ![parent] = @ - 1]

\* one iteration of "for leaf in leaves" (lines 197-201); indegree is a
\* defaultdict(int), so decrementing an absent parent creates it
PopLeaf(indegree, dgraph, leaf) ==
    LET parent == dgraph[leaf]
        dec == IF parent = NoneId THEN indegree
               ELSE [n \in DOMAIN indegree \cup {parent} |->
                        IF n = parent
                        THEN (IF n \in DOMAIN indegree THEN indegree[n] ELSE 0) - 1
                        ELSE indegree[n]]
    IN  [n \in DOMAIN dec \ {leaf} |-> dec[n]]

RECURSIVE PopLeaves(_, _, _)
PopLeaves(indegree, dgraph, leaves) ==
    IF leaves = <<>> THEN indegree
    ELSE PopLeaves(PopLeaf(indegree, dgraph, Head(leaves)), dgraph, Tail(leaves))

\* faulty variant of Batch: the slice is not capped at batch_size
BatchUncapped(run) ==
    {run.leaves[k] : k \in (run.i + 1)..Len(run.leaves)}

\* the leaves of the batch being gathered: coroutines[i:i + batch_size]
Batch(run) ==
    {run.leaves[k] : k \in (run.i + 1)..(IF run.i + BatchSize < Len(run.leaves)
                                          THEN run.i + BatchSize ELSE Len(run.leaves))}

Finished(task) == task.pc \in {"done", "raised"}

\* a generate_doc coroutine is between its first statement and its first await
InSync == \E r \in 1..Len(runs) : \E d \in DOMAIN runs[r].gen : runs[r].gen[d].pc = "sync"

\* the test of "while root in indegree" and what follows it: the next round's
\* leaves and tasks with the first batch gathered, or the end of the run.
\* round counts the rounds entered, up to MaxDocs + 1: a tree of MaxDocs
\* documents is done after at most MaxDocs rounds.
EnterLoop(r, run, indegree) ==
    IF run.firestore_repo.root_doc \in DOMAIN indegree
    THEN /\ runs' = [runs EXCEPT ![r] =
                        [run EXCEPT !.pc = "batch",
                                    !.indegree = indegree,
                                    !.leaves = Leaves(indegree),
                                    !.i = 0,
                                    !.round = IF @ <= MaxDocs THEN @ + 1 ELSE @,
                                    !.gen = [d \in {Leaves(indegree)[k] : k \in 1..Len(Leaves(indegree))}
                                                |-> IdleTask]]]
         /\ UNCHANGED repos
    ELSE /\ runs' = [runs EXCEPT ![r] = [run EXCEPT !.pc = "done", !.indegree = indegree,
                                                    !.leaves = <<>>, !.gen = EmptyMap]]
         /\ repos' = update_repo(repos, run.firestore_repo.id, COMPLETED)

\* the background task starts: lines 166-177, then the loop
RunStart(r) ==
    /\ r \in 1..Len(runs)
    /\ runs[r].pc = "queued"
    /\ ~InSync
    /\ LET run == runs[r]
           dgraph == run.firestore_repo.dependencies
       IN  IF _validate_repo(run.firestore_repo)
           THEN /\ runs' = [runs EXCEPT ![r].pc = "raised", ![r].error = "validate"]
                /\ UNCHANGED repos
           ELSE EnterLoop(r, [run EXCEPT !.children_graph = ChildrenGraph(dgraph)],
                          Indegree(dgraph))
    /\ response' = NoResponse
    /\ UNCHANGED <<documentation, fileJobs, toolVars>>

\* asyncio.gather of the current batch returns (lines 436-439); after the
\* last batch, lines 193-201 and the loop
BatchEnd(r) ==
    /\ r \in 1..Len(runs)
    /\ runs[r].pc = "batch"
    /\ ~InSync
    /\ \A d \in Batch(runs[r]) : Finished(runs[r].gen[d])
    /\ LET run == runs[r]
           dgraph == run.firestore_repo.dependencies
       IN  IF run.i + BatchSize < Len(run.leaves)
           THEN /\ runs' = [runs EXCEPT ![r].i = @ + BatchSize]
                /\ UNCHANGED repos
           ELSE IF \E d \in DOMAIN run.gen : run.gen[d].pc = "raised"
                THEN /\ runs' = [runs EXCEPT ![r].pc = "raised", ![r].error = "generate"]
                     /\ UNCHANGED repos
                ELSE EnterLoop(r, run, PopLeaves(run.indegree, dgraph, run.leaves))
    /\ response' = NoResponse
    /\ UNCHANGED <<documentation, fileJobs, toolVars>>

----------------------------------------------------------------------------
(* DocumentationService.generate_doc, run as a task of a scheduler round *)

\* DataService.get_documentation: the stored record, its id taken from the
\* snapshot
get_documentation(doc_id) ==
    [FirestoreDoc(documentation[doc_id]) EXCEPT !.id = ToString(doc_id)]

\* _validate_dependencies (with the attribute errors of a document or a
\* dependency that get_documentation returned as None): TRUE when it raises
_validate_dependencies(doc_id, dependencies) ==
    \/ doc_id \notin DOMAIN documentation
    \/ documentation[doc_id].type = DIRECTORY /\ dependencies = <<>>
    \/ \E k \in 1..Len(dependencies) :
          \/ dependencies[k] \notin DOMAIN documentation
          \/ documentation[dependencies[k]].status # COMPLETED

\* GithubService.get_file_from_url: TRUE when the url names a file page
\* (_extract_github_url_info finds a file path); a None or directory url
\* makes it raise "Invalid GitHub url"
ValidFileUrl(github_url) == github_url = BlobUrl

\* the except clause (lines 126-129) ran: FAILED was written and the
\* exception is the task's result
Raise(r, d) ==
    [runs EXCEPT ![r].gen[d].pc = "raised", ![r].failed = @ \cup {d},
                 ![r].writes[d] = Append(@, FAILED)]

\* the earlier coroutines of the batch have been started (gather schedules
\* the tasks in order)
EarlierStarted(run, d) ==
    \A k \in 1..Len(run.leaves) :
        (run.leaves[k] \in Batch(run) /\ run.leaves[k] < d) => run.gen[run.leaves[k]].pc # "idle"

\* lines 107-115: load the document and its dependencies, validate, set
\* IN_PROGRESS.  loadOk = FALSE is a store read that raises.
GenStart(r, d) ==
    /\ r \in 1..Len(runs)
    /\ runs[r].pc = "batch"
    /\ d \in Batch(runs[r])
    /\ runs[r].gen[d].pc = "idle"
    /\ EarlierStarted(runs[r], d)
    /\ ~InSync
    /\ \E loadOk \in BOOLEAN :
        LET called == [runs EXCEPT ![r].calls[d] = @ + 1]
        IN  IF ~loadOk \/ _validate_dependencies(d, Dependencies(runs[r].children_graph, d))
            THEN /\ runs' = [called EXCEPT ![r].gen[d].pc = "raised", ![r].failed = @ \cup {d}]
                 /\ UNCHANGED documentation
            ELSE /\ runs' = [called EXCEPT ![r].gen[d].pc = "sync",
                                           ![r].gen[d].doc = get_documentation(d),
                                           ![r].writes[d] = @ \o <<documentation[d].status,
                                                                   IN_PROGRESS>>]
                 /\ documentation' = update_documentation(documentation, d, TRUE,
                                                          [status |-> IN_PROGRESS])
    /\ response' = NoResponse
    /\ UNCHANGED <<repos, fileJobs, toolVars>>

\* lines 117-129 up to the first await: the source fetch of a file, the
\* checks of generate_doc_for_file / generate_doc_for_folder.  fetchOk =
\* FALSE is a source host call that raises.
GenSync(r, d) ==
    /\ r \in 1..Len(runs)
    /\ d \in DOMAIN runs[r].gen
    /\ runs[r].gen[d].pc = "sync"
    /\ LET doc == runs[r].gen[d].doc
       IN  \E fetchOk \in BOOLEAN :
            IF \/ doc.type = FILE /\ ValidFileUrl(doc.github_url) /\ fetchOk
               \/ doc.type = DIRECTORY
            THEN /\ runs' = [runs EXCEPT ![r].gen[d].pc = "json"]
                 /\ UNCHANGED documentation
            ELSE /\ runs' = Raise(r, d)
                 /\ documentation' = update_documentation(documentation, d, TRUE,
                                                          [status |-> FAILED])
    /\ response' = NoResponse
    /\ UNCHANGED <<repos, fileJobs, toolVars>>

\* what llm_client.generate_json can give back: an exception, or a
\* completion with a finish_reason and a message content
JsonCompletions ==
    {[raised |-> TRUE, finish_reason |-> None, content |-> None]} \cup
    {[raised |-> FALSE, finish_reason |-> fr, content |-> c] :
        fr \in {"stop", "length"}, c \in JsonTexts}

\* _parse_and_validate_llm_completion: ok is FALSE when it raises
_parse_and_validate_llm_completion(llm_completion) ==
    IF llm_completion.finish_reason = "length"
    THEN [ok |-> FALSE, dict |-> None]
    ELSE _parse_json(llm_completion.content)

\* what llm_client.generate_text can give back
TextCompletions ==
    {[raised |-> TRUE, content |-> ""]} \cup
    {[raised |-> FALSE, content |-> c] : c \in MarkdownTexts}

\* _generate_markdown_content after the completion arrived (lines 321-327):
\* ok is FALSE when markdown_text[0] raises IndexError
_generate_markdown_content(completion) ==
    LET markdown_text == Chars(completion.content)
    IN  IF markdown_text = <<>> THEN [ok |-> FALSE, text |-> ""]
        ELSE IF markdown_text[1] = " " THEN [ok |-> TRUE, text |-> Text(Tail(markdown_text))]
        ELSE [ok |-> TRUE, text |-> Text(markdown_text)]

\* the JSON completion arrives (generate_doc_for_file / _for_folder,
\* lines 48-55 and 84-90)
GenJson(r, d) ==
    /\ r \in 1..Len(runs)
    /\ d \in DOMAIN runs[r].gen
    /\ runs[r].gen[d].pc = "json"
    /\ ~InSync
    /\ \E llm_completion \in JsonCompletions :
        LET parsed == _parse_and_validate_llm_completion(llm_completion)
        IN  IF ~llm_completion.raised /\ parsed.ok
            THEN /\ runs' = [runs EXCEPT ![r].gen[d].pc = "markdown",
                                         ![r].gen[d].json_content = parsed.dict]
                 /\ UNCHANGED documentation
            ELSE /\ runs' = Raise(r, d)
                 /\ documentation' = update_documentation(documentation, d, TRUE,
                                                          [status |-> FAILED])
    /\ response' = NoResponse
    /\ UNCHANGED <<repos, fileJobs, toolVars>>

\* the Markdown completion arrives; lines 57-64 / 92-99 and 131-139
GenMarkdown(r, d) ==
    /\ r \in 1..Len(runs)
    /\ d \in DOMAIN runs[r].gen
    /\ runs[r].gen[d].pc = "markdown"
    /\ ~InSync
    /\ \E completion \in TextCompletions :
        LET markdown == _generate_markdown_content(completion)
        IN  IF ~completion.raised /\ markdown.ok
            THEN /\ runs' = [runs EXCEPT ![r].gen[d].pc = "done",
                                         ![r].completed = @ \cup {d},
                                         ![r].writes[d] = Append(@, COMPLETED)]
                 /\ documentation' = update_documentation(documentation, d, TRUE,
                        [extracted_data |-> runs[r].gen[d].json_content,
                         markdown_content |-> markdown.text,
                         usage |-> "usage",
                         status |-> COMPLETED])
            ELSE /\ runs' = Raise(r, d)
                 /\ documentation' = update_documentation(documentation, d, TRUE,
                                                          [status |-> FAILED])
    /\ response' = NoResponse
    /\ UNCHANGED <<repos, fileJobs, toolVars>>

----------------------------------------------------------------------------
(* Request handlers of the repository routes *)

\* enqueue_generate_repo_docs_job
enqueue_generate_repo_docs_job(stored, firestore_repo) ==
    /\ repos' = update_repo(stored, firestore_repo.id, IN_PROGRESS)
    /\ runs' = Append(runs, NewRun(firestore_repo))

\* POST /repos/identify
upload_repo(p, user_id) ==
    /\ RepoId \notin DOMAIN repos
    /\ ~InSync
    /\ batch_create_repo(identify(p, user_id))
    /\ response' = Respond("upload_repo", NoneId, 200)
    /\ UNCHANGED <<runs, fileJobs, toolVars>>

\* POST /repos
create_repo_docs(p, user_id) ==
    /\ RepoId \notin DOMAIN repos
    /\ Len(runs) < MaxRuns
    /\ ~InSync
    /\ LET firestore_repo == identify(p, user_id)
           stored == [r \in DOMAIN repos \cup {RepoId} |->
                        IF r = RepoId THEN firestore_repo ELSE repos[r]]
       IN  /\ documentation' = [d \in DOMAIN documentation \cup DOMAIN firestore_repo.docs |->
                                    IF d \in DOMAIN firestore_repo.docs
                                    THEN firestore_repo.docs[d] ELSE documentation[d]]
           /\ enqueue_generate_repo_docs_job(stored, firestore_repo)
    /\ response' = Respond("create_repo_docs", NoneId, 200)
    /\ UNCHANGED <<fileJobs, toolVars>>

\* POST /repos/{repo_id}/generate
generate_repo_docs(user_id) ==
    /\ RepoId \in DOMAIN repos
    /\ Len(runs) < MaxRuns
    /\ ~InSync
    /\ IF repos[RepoId].owner # user_id
       THEN /\ response' = Respond("generate_repo_docs", NoneId, 401)
            /\ UNCHANGED <<repos, runs>>
       ELSE /\ enqueue_generate_repo_docs_job(repos, repos[RepoId])
            /\ response' = Respond("generate_repo_docs", NoneId, 202)
    /\ UNCHANGED <<documentation, fileJobs, toolVars>>

----------------------------------------------------------------------------
(* Single-file jobs: enqueue_generate_file_doc_job, regenerate_doc and
   generate_file_doc_background_task *)

\* the task add_task queued: generate_file_doc_background_task(doc_id, file, model)
NewFileJob(doc_id) == [pc |-> "json", doc_id |-> doc_id, json_content |-> None]

\* POST /file-docs: the router fetches the file, the service stores a new
\* document (model_dump() of the FirestoreDoc, then its id) and queues the task
generate_file_docs ==
    /\ FileDocId \notin DOMAIN documentation
    /\ Len(fileJobs) < MaxFileJobs
    /\ ~InSync
    /\ \E fetchOk \in BOOLEAN :
        IF ~fetchOk
        THEN /\ response' = Respond("generate_file_docs", NoneId, 500)
             /\ UNCHANGED <<documentation, fileJobs>>
        ELSE /\ documentation' =
                    [d \in DOMAIN documentation \cup {FileDocId} |->
                        IF d = FileDocId
                        THEN FirestoreUpdate(
                                model_dump([github_url |-> BlobUrl, type |-> FILE, size |-> "size",
                                            relative_path |-> "path", status |-> IN_PROGRESS]),
                                [id |-> ToString(FileDocId)])
                        ELSE documentation[d]]
             /\ fileJobs' = Append(fileJobs, NewFileJob(FileDocId))
             /\ response' = Respond("generate_file_docs", FileDocId, 202)
    /\ UNCHANGED <<repos, runs, toolVars>>

\* faulty variant of regenerate_doc: the status of the document is not tested
regenerate_doc_without_status_check(doc_id) ==
    /\ doc_id \in DOMAIN documentation
    /\ Len(fileJobs) < MaxFileJobs
    /\ ~InSync
    /\ LET doc == get_documentation(doc_id)
       IN  \E fetchOk \in BOOLEAN :
            IF ~ValidFileUrl(doc.github_url)
            THEN /\ response' = Respond("regenerate_doc", doc_id, 400)
                 /\ UNCHANGED <<documentation, fileJobs>>
            ELSE IF ~fetchOk
            THEN /\ response' = Respond("regenerate_doc", doc_id, 500)
                 /\ UNCHANGED <<documentation, fileJobs>>
            ELSE /\ documentation' = update_documentation(documentation, doc_id, FALSE,
                        model_dump_exclude_unset(
                            [github_url |-> BlobUrl, type |-> FILE, size |-> "size",
                             relative_path |-> "path", status |-> IN_PROGRESS]))
                 /\ fileJobs' = Append(fileJobs, NewFileJob(doc_id))
                 /\ response' = Respond("regenerate_doc", doc_id, 202)
    /\ UNCHANGED <<repos, runs, toolVars>>

\* PUT /file-docs/{doc_id}: DocumentationService.regenerate_doc
regenerate_doc(doc_id) ==
    /\ doc_id \in DOMAIN documentation
    /\ Len(fileJobs) < MaxFileJobs
    /\ ~InSync
    /\ LET doc == get_documentation(doc_id)
       IN  \E fetchOk \in BOOLEAN :
            IF doc.status \notin {COMPLETED, FAILED}
            THEN /\ response' = Respond("regenerate_doc", doc_id, 400)
                 /\ UNCHANGED <<documentation, fileJobs>>
            ELSE IF ~ValidFileUrl(doc.github_url)
            THEN /\ response' = Respond("regenerate_doc", doc_id, 400)
                 /\ UNCHANGED <<documentation, fileJobs>>
            ELSE IF ~fetchOk
            THEN /\ response' = Respond("regenerate_doc", doc_id, 500)
                 /\ UNCHANGED <<documentation, fileJobs>>
            ELSE /\ documentation' = update_documentation(documentation, doc_id, FALSE,
                        model_dump_exclude_unset(
                            [github_url |-> BlobUrl, type |-> FILE, size |-> "size",
                             relative_path |-> "path", status |-> IN_PROGRESS]))
                 /\ fileJobs' = Append(fileJobs, NewFileJob(doc_id))
                 /\ response' = Respond("regenerate_doc", doc_id, 202)
    /\ UNCHANGED <<repos, runs, toolVars>>

\* generate_file_doc_background_task, the JSON completion of
\* generate_doc_for_file arrives; an exception ends the task
FileJson(j) ==
    /\ j \in 1..Len(fileJobs)
    /\ fileJobs[j].pc = "json"
    /\ \E llm_completion \in JsonCompletions :
        LET parsed == _parse_and_validate_llm_completion(llm_completion)
        IN  IF ~llm_completion.raised /\ parsed.ok
            THEN fileJobs' = [fileJobs EXCEPT ![j].pc = "markdown",
                                              ![j].json_content = parsed.dict]
            ELSE fileJobs' = [fileJobs EXCEPT ![j].pc = "raised"]
    /\ response' = NoResponse
    /\ UNCHANGED <<documentation, repos, runs, toolVars>>

\* the Markdown completion arrives, then lines 151-159
FileMarkdown(j) ==
    /\ j \in 1..Len(fileJobs)
    /\ fileJobs[j].pc = "markdown"
    /\ \E completion \in TextCompletions :
        LET markdown == _generate_markdown_content(completion)
        IN  IF ~completion.raised /\ markdown.ok /\ fileJobs[j].doc_id \in DOMAIN documentation
            THEN /\ fileJobs' = [fileJobs EXCEPT ![j].pc = "done"]
                 /\ documentation' = update_documentation(documentation, fileJobs[j].doc_id, FALSE,
                        model_dump_exclude_unset(
                            [extracted_data |-> fileJobs[j].json_content,
                             markdown_content |-> markdown.text,
                             usage |-> "usage",
                             status |-> COMPLETED]))
            ELSE /\ fileJobs' = [fileJobs EXCEPT ![j].pc = "raised"]
                 /\ UNCHANGED documentation
    /\ response' = NoResponse
    /\ UNCHANGED <<repos, runs, toolVars>>

----------------------------------------------------------------------------
(* DELETE /file-docs/{doc_id} *)

\* DataService._delete: the document is removed from the collection
_delete(collection, document_id) ==
    [d \in DOMAIN collection \ {document_id} |-> collection[d]]

\* DataService.delete_user_documentation, called by delete_file_docs
delete_user_documentation(user_id, doc_id) ==
    /\ ~InSync
    /\ IF doc_id \notin DOMAIN documentation
       THEN /\ response' = Respond("delete_file_docs", doc_id, 404)
            /\ UNCHANGED documentation
       ELSE IF documentation[doc_id].owner # user_id
       THEN /\ response' = Respond("delete_file_docs", doc_id, 401)
            /\ UNCHANGED documentation
       ELSE IF documentation[doc_id].status = IN_PROGRESS
       THEN /\ response' = Respond("delete_file_docs", doc_id, 400)
            /\ UNCHANGED documentation
       ELSE /\ response' = Respond("delete_file_docs", doc_id, 200)
            /\ documentation' = _delete(documentation, doc_id)
    /\ UNCHANGED <<repos, runs, fileJobs, toolVars>>

----------------------------------------------------------------------------
(* services/chat_service.py: ChatService.chat *)

\* max_steps of chat
max_steps == 4

\* A text of the language model is a sequence of words; Quote is the word '"'.
Quote == "\""

\* The answers of the language model to the agent prompt: a Search step, a
\* Finish step, a step without Thought, a step without Action, a step with an
\* action that is neither Search nor Finish, and a Search step whose Action
\* comes before its Thought.
LlmOutputs ==
    { <<"Thought", ":", Quote, "t", Quote, "Action", ":", "Search", "[", Quote, "q", Quote, "]">>,
      <<"Thought", ":", "t", "Action", ":", "Finish", "[", Quote, "a", Quote, "]">>,
      <<"Action", ":", "Finish", "[", "a", "]">>,
      <<"Thought", ":", "t">>,
      <<"Thought", ":", "t", "Action", ":", "Lookup", "[", "x", "]">>,
      <<"Action", ":", "Search", "[", "q", "]", "Thought", ":", "u">> }

\* The texts that ChatService.search returns: its output for no relevant
\* document and for one relevant document.
SearchOutputs ==
    { <<"There are 0 relevant document(s).">>,
      <<"There are 1 relevant document(s).", "1. f with a relevancy score of 0.7.", "# a">> }

\* str.find: the 0-based position of the first occurrence, -1 when absent
find(text, word) ==
    IF \E i \in 1..Len(text) : text[i] = word
    THEN (CHOOSE i \in 1..Len(text) :
              /\ text[i] = word
              /\ \A j \in 1..(i - 1) : text[j] # word) - 1
    ELSE -1

\* text[start:stop] of Python, for 0 <= start
Slice(text, start, stop) == SubSeq(text, start + 1, stop)

RECURSIVE lstrip(_, _)
lstrip(text, chars) ==
    IF text # <<>> /\ Head(text) \in chars THEN lstrip(Tail(text), chars) ELSE text

RECURSIVE rstrip(_, _)
rstrip(text, chars) ==
    IF text # <<>> /\ text[Len(text)] \in chars
    THEN rstrip(SubSeq(text, 1, Len(text) - 1), chars)
    ELSE text

strip(text, chars) == rstrip(lstrip(text, chars), chars)

extract_step(unparsed_step) == strip(lstrip(unparsed_step, {":"}), {"'", Quote})

\* parse_step followed by extract_action, as in the try block of chat: the
\* exception raised, or the thought, the action and its input
parse_step(agent_output) ==
    LET thought_start == find(agent_output, "Thought")
        action_start == find(agent_output, "Action")
    IN  IF thought_start = -1 \/ action_start = -1
        THEN [error |-> "WrongFormattingError", thought |-> <<>>, action |-> <<>>]
        ELSE [error |-> None,
              thought |-> extract_step(Slice(agent_output, thought_start + 1, action_start)),
              action |-> extract_step(Slice(agent_output, action_start + 1, Len(agent_output)))]

extract_action(action) ==
    IF action # <<>> /\ Head(action) \in {"Search", "Finish"}
    THEN [error |-> None, action |-> Head(action),
          func_input |-> strip(Tail(action), {"[", "]", Quote, "'"})]
    ELSE [error |-> "InvalidAction", action |-> None, func_input |-> <<>>]

Message(role, content) == [role |-> role, content |-> content]

Event(action, output) == [action |-> action, output |-> output]

IdleChat ==
    [pc |-> "idle", i |-> 0, chat_history |-> <<>>, events |-> <<>>,
     thought |-> <<>>, action_input |-> <<>>, error |-> None]

\* chat is called: lines 41-44, up to the first request to the language model
ChatRequest ==
    /\ chat.pc = "idle"
    /\ chat' = [chat EXCEPT !.pc = "llm",
                            !.chat_history = << Message("system", <<"CHATBOT_SYS_PROMPT">>),
                                                Message("user", <<"Question", ":", "query">>) >>]
    /\ UNCHANGED otherThanChat

\* The request to the language model of one step of the loop returns or
\* raises: lines 45-59, up to the await of execute_action. The request is
\* outside the try block, so what it raises leaves chat.
ChatStep ==
    /\ chat.pc = "llm"
    /\ \/ chat' = [chat EXCEPT !.pc = "raised", !.error = "generate_messages"]
       \/ \E llm_output \in LlmOutputs :
            LET history == Append(chat.chat_history, Message("assistant", llm_output))
                step == parse_step(llm_output)
                act == extract_action(step.action)
            IN  IF step.error # None \/ act.error # None
                THEN chat' = [chat EXCEPT !.pc = "fallback", !.chat_history = history]
                ELSE chat' = [chat EXCEPT
                        !.pc = IF act.action = "Finish" THEN "done" ELSE "search",
                        !.chat_history = history,
                        !.events = Append(@, Event(act.action, act.func_input)),
                        !.thought = step.thought,
                        !.action_input = act.func_input]
    /\ UNCHANGED otherThanChat

\* execute_action returns or raises: lines 59-72 and the loop header
ChatSearch ==
    /\ chat.pc = "search"
    /\ \/ chat' = [chat EXCEPT !.pc = "fallback"]
       \/ \E output \in SearchOutputs :
            LET popped == SubSeq(chat.chat_history, 1, Len(chat.chat_history) - 1)
                history == popped \o
                    << Message("assistant", <<"Thought", ":">> \o chat.thought \o <<"Action", ":", "Search">>),
                       Message("user", <<"Result", ":">> \o output) >>
            IN  chat' = [chat EXCEPT
                    !.pc = IF chat.i + 1 < max_steps THEN "llm" ELSE "fallback",
                    !.i = @ + 1,
                    !.chat_history = history]
    /\ UNCHANGED otherThanChat

\* The fallback, line 74: search(repo_id, input, user_id) is called with two
\* arguments, which raises TypeError before anything is searched or yielded.
ChatFallback ==
    /\ chat.pc = "fallback"
    /\ chat' = [chat EXCEPT !.pc = "raised", !.error = "TypeError"]
    /\ UNCHANGED otherThanChat

----------------------------------------------------------------------------
(* services/chat_service.py: ChatService.search *)

\* the documents the hits name, and the scores of the hits in tenths
SearchDocs == 1..2

Scores == {5, 6, 7, 8}

\* 0.6, in tenths
score_threshold == 6

Hits == UNION {[1..n -> [doc_id : SearchDocs, score : Scores]] : n \in 0..MaxHits}

\* a generated document as it is stored, with or without its owner
StoredDoc(doc_id, owner) ==
    FirestoreDoc([id |-> ToString(doc_id), relative_path |-> "path",
                  markdown_content |-> "# a", status |-> COMPLETED, owner |-> owner])

IdleRetrieval ==
    [pc |-> "idle", user_id |-> None, search_results |-> <<>>, docs |-> <<>>,
     output |-> None, error |-> None]

\* faulty variant of the score test: a score of 0.6 passes
RelevantFrom(score) ==
    score >= score_threshold

\* line 129: score > 0.6
Relevant(score) ==
    score > score_threshold

\* lines 127-131: the loop over the hits; docs is the dict in the order of
\* insertion, get_user_documentation raises for a document that is missing
\* or has another owner
RECURSIVE ForHits(_, _, _)
ForHits(search_results, docs, user_id) ==
    IF search_results = <<>> THEN [error |-> None, docs |-> docs]
    ELSE LET search_result == Head(search_results)
             doc_id == search_result.doc_id
             score == search_result.score
         IN  IF (~\E k \in 1..Len(docs) : docs[k].doc_id = doc_id) /\ Relevant(score)
             THEN IF doc_id \notin DOMAIN documentation
                  THEN [error |-> "404", docs |-> docs]
                  ELSE IF documentation[doc_id].owner # user_id
                  THEN [error |-> "401", docs |-> docs]
                  ELSE ForHits(Tail(search_results),
                               Append(docs, [doc_id |-> doc_id, score |-> score,
                                             doc_content |-> documentation[doc_id].markdown_content,
                                             doc_path |-> documentation[doc_id].relative_path]),
                               user_id)
             ELSE ForHits(Tail(search_results), docs, user_id)

\* lines 133-141: the text that is returned, as its parts
SearchOutput(docs) ==
    [count |-> Len(docs),
     documentation_summary |->
         [i \in 1..Len(docs) |-> [number |-> i, doc_path |-> docs[i].doc_path,
                                  score |-> docs[i].score]],
     documentation |-> [i \in 1..Len(docs) |-> docs[i].doc_content]]

\* ChatService.search(repo_id, input, user_id), lines 124-141
ChatServiceSearch(user_id) ==
    /\ retrieval.pc = "idle"
    /\ LET kept == ForHits(retrieval.search_results, <<>>, user_id)
       IN  retrieval' =
             IF kept.error # None
             THEN [retrieval EXCEPT !.pc = "raised", !.user_id = user_id,
                                    !.error = kept.error]
             ELSE [retrieval EXCEPT !.pc = "returned", !.user_id = user_id,
                                    !.docs = kept.docs, !.output = SearchOutput(kept.docs)]
    /\ UNCHANGED <<documentation, otherThanRetrieval>>

----------------------------------------------------------------------------
(* services/identifier_service.py: the walk of IdentifierService.identify *)

\* A name or a path is the sequence of its characters.
exclude_dirs ==
    { <<".", "g", "i", "t">>,
      <<".", "g", "i", "t", "h", "u", "b">>,
      <<".", "v", "s", "c", "o", "d", "e">>,
      <<"n", "o", "d", "e", "_", "m", "o", "d", "u", "l", "e", "s">>,
      <<"v", "e", "n", "v">>,
      <<"p", "a", "t", "c", "h">>,
      <<"p", "a", "c", "k", "a", "g", "e", "s", "/", "b", "l", "o", "b", "s">>,
      <<"d", "i", "s", "t">> }

exclude_exts ==
    { <<".", "m", "i", "n", ".", "j", "s">>,
      <<".", "m", "i", "n", ".", "j", "s", ".", "m", "a", "p">>,
      <<".", "m", "i", "n", ".", "c", "s", "s">>,
      <<".", "m", "i", "n", ".", "c", "s", "s", ".", "m", "a", "p">>,
      <<".", "t", "f", "s", "t", "a", "t", "e">>,
      <<".", "t", "f", "s", "t", "a", "t", "e", ".", "b", "a", "c", "k", "u", "p">>,
      <<".", "j", "a", "r">>,
      <<".", "i", "p", "y", "n", "b">>,
      <<".", "p", "n", "g">>,
      <<".", "j", "p", "g">>,
      <<".", "j", "p", "e", "g">>,
      <<".", "d", "o", "w", "n", "l", "o", "a", "d">>,
      <<".", "g", "i", "f">>,
      <<".", "b", "m", "p">>,
      <<".", "t", "i", "f", "f">>,
      <<".", "i", "c", "o">>,
      <<".", "m", "p", "3">>,
      <<".", "w", "a", "v">>,
      <<".", "w", "m", "a">>,
      <<".", "o", "g", "g">>,
      <<".", "f", "l", "a", "c">>,
      <<".", "m", "p", "4">>,
      <<".", "a", "v", "i">>,
      <<".", "m", "k", "v">>,
      <<".", "m", "o", "v">>,
      <<".", "p", "a", "t", "c", "h">>,
      <<".", "p", "a", "t", "c", "h", ".", "d", "i", "s", "a", "b", "l", "e", "d">>,
      <<".", "w", "m", "v">>,
      <<".", "m", "4", "a">>,
      <<".", "m", "4", "v">>,
      <<".", "3", "g", "p">>,
      <<".", "3", "g", "2">>,
      <<".", "r", "m">>,
      <<".", "s", "w", "f">>,
      <<".", "f", "l", "v">>,
      <<".", "i", "s", "o">>,
      <<".", "b", "i", "n">>,
      <<".", "t", "a", "r">>,
      <<".", "z", "i", "p">>,
      <<".", "7", "z">>,
      <<".", "g", "z">>,
      <<".", "r", "a", "r">>,
      <<".", "p", "d", "f">>,
      <<".", "d", "o", "c">>,
      <<".", "d", "o", "c", "x">>,
      <<".", "x", "l", "s">>,
      <<".", "x", "l", "s", "x">>,
      <<".", "p", "p", "t">>,
      <<".", "p", "p", "t", "x">>,
      <<".", "s", "v", "g">>,
      <<".", "p", "a", "r", "q", "u", "e", "t">>,
      <<".", "p", "y", "c">>,
      <<".", "p", "u", "b">>,
      <<".", "p", "e", "m">>,
      <<".", "t", "t", "f">>,
      <<".", "d", "f", "n">>,
      <<".", "d", "f", "m">>,
      <<".", "f", "e", "a", "t", "u", "r", "e">>,
      <<"s", "w", "e", "e", "p", ".", "y", "a", "m", "l">>,
      <<"p", "n", "p", "m", "-", "l", "o", "c", "k", ".", "y", "a", "m", "l">>,
      <<"L", "I", "C", "E", "N", "S", "E">>,
      <<"p", "o", "e", "t", "r", "y", ".", "l", "o", "c", "k">> }

\* the size limit of _skip_node, in bytes
max_file_size == 247500

\* str.startswith and str.endswith
startswith(text, prefix) ==
    Len(text) >= Len(prefix) /\ SubSeq(text, 1, Len(prefix)) = prefix

endswith(text, suffix) ==
    Len(text) >= Len(suffix) /\ SubSeq(text, Len(text) - Len(suffix) + 1, Len(text)) = suffix

\* The entries of a source tree (ContentFile): code files at, below and above
\* the size limit, a file that content sniffing does not class as code, files
\* with an excluded name, a symbolic link, and directories.
SourceFile(name, size, group) ==
    [name |-> name, type |-> FILE, size |-> size, group |-> group]

SourceDir(name) == [name |-> name, type |-> DIRECTORY, size |-> 0, group |-> None]

Contents ==
    { SourceFile(<<"a", ".", "p", "y">>, size, "code") : size \in {1, max_file_size, max_file_size + 1} }
    \cup { SourceFile(<<"a", ".", "p", "y">>, 1, "text"),
           SourceFile(<<"_", "a", ".", "p", "y">>, 1, "code"),
           SourceFile(<<".", "a", ".", "p", "y">>, 1, "code"),
           SourceFile(<<"a", ".", "p", "n", "g">>, 1, "code"),
           [name |-> <<"l">>, type |-> "symlink", size |-> 1, group |-> None] }
    \cup { SourceDir(name) : name \in { <<"s", "r", "c">>, <<"_", "p">>, <<".", "g", "i", "t">>,
                                        <<".", ".">>, <<"n", "o", "d", "e", "_", "m", "o", "d", "u", "l", "e", "s">>, <<"d", "i", "s", "t">> } }

\* the path of entry n of a source tree: the names from the root, joined by "/"
RECURSIVE Path(_, _)
Path(tree, n) ==
    IF n = 0 THEN <<>>
    ELSE IF tree[n].parent = 0 THEN tree[n].content.name
    ELSE Path(tree, tree[n].parent) \o <<"/">> \o tree[n].content.name

\* The source trees (Repository) of at most MaxEntries entries: entry n lies
\* in the directory tree[n].parent, 0 being the root of the repository, a
\* directory comes before its entries, and no two entries have the same path.
IsSourceTree(tree) ==
    /\ \A n \in 1..Len(tree) :
         /\ tree[n].parent < n
         /\ tree[n].parent # 0 => tree[tree[n].parent].content.type = DIRECTORY
    /\ \A n \in 2..Len(tree) : tree[n - 1].parent <= tree[n].parent
    /\ \A m, n \in 1..Len(tree) : m # n => Path(tree, m) # Path(tree, n)

SourceTrees ==
    {tree \in UNION {[1..n -> [parent : 0..(MaxEntries - 1), content : Contents]] : n \in 0..MaxEntries} :
        IsSourceTree(tree)}

\* Repository.get_contents(path): the entries of directory n, in their order
RECURSIVE get_contents(_, _, _)
get_contents(tree, n, from) ==
    IF from > Len(tree) THEN <<>>
    ELSE (IF tree[from].parent = n THEN <<from>> ELSE <<>>) \o get_contents(tree, n, from + 1)

_skip_node(tree, n) ==
    LET node == tree[n].content
    IN  IF node.type = FILE
        THEN LET is_invalid_filename ==
                     \/ startswith(node.name, <<"_">>)
                     \/ startswith(node.name, <<".">>)
                     \/ \E ext \in exclude_exts : endswith(node.name, ext)
                 is_too_large == node.size > max_file_size
             IN  IF ~is_invalid_filename /\ ~is_too_large
                 THEN node.group # "code"
                 ELSE TRUE
        ELSE IF node.type = DIRECTORY
        THEN \/ startswith(node.name, <<".">>)
             \/ \E exclude_dir \in exclude_dirs : endswith(Path(tree, n), exclude_dir)
        ELSE FALSE

\* The local variables of identify during the walk: docs and dependencies by
\* document id (ids are given in the order of creation, the root is 1), the
\* queue of directories, and the source entry of each document.
IdleWalk(tree) ==
    [repository |-> tree, pc |-> "idle", docs |-> EmptyMap, dependencies |-> EmptyMap,
     queue |-> <<>>, entry |-> EmptyMap, repo |-> EmptyMap]

Extend(map, key, value) ==
    [k \in DOMAIN map \cup {key} |-> IF k = key THEN value ELSE map[k]]

\* lines 117-135: the loop over the contents of parent. FirestoreDoc accepts
\* the types "file" and "dir" only; any other type raises a validation error.
RECURSIVE ForContents(_, _, _)
ForContents(w, parent, contents) ==
    IF contents = <<>> \/ w.pc = "raised" THEN w
    ELSE LET n == Head(contents)
             content == w.repository[n].content
             id == Cardinality(DOMAIN w.docs) + 1
             firestore_doc ==
                 FirestoreDoc(
                     [id |-> ToString(id),
                      github_url |-> IF content.type = DIRECTORY THEN TreeUrl ELSE BlobUrl,
                      relative_path |-> Path(w.repository, n),
                      type |-> content.type,
                      size |-> IF content.size = 0 THEN None ELSE content.size,
                      status |-> NOT_STARTED,
                      repo |-> RepoId,
                      owner |-> "u1"])
         IN  IF _skip_node(w.repository, n)
             THEN ForContents(w, parent, Tail(contents))
             ELSE IF content.type \notin {FILE, DIRECTORY}
             THEN [w EXCEPT !.pc = "raised"]
             ELSE ForContents(
                     [w EXCEPT !.docs = Extend(@, id, firestore_doc),
                               !.entry = Extend(@, id, n),
                               !.queue = IF content.type = DIRECTORY THEN Append(@, id) ELSE @,
                               !.dependencies = Extend(@, id, parent)],
                     parent, Tail(contents))

\* lines 99-113: the root document and the queue that holds it
IdentifyStart ==
    /\ walk.pc = "idle"
    /\ LET root == FirestoreDoc(
                       [id |-> ToString(1), github_url |-> TreeUrl, relative_path |-> <<>>,
                        type |-> DIRECTORY, status |-> NOT_STARTED, repo |-> RepoId,
                        owner |-> "u1"])
       IN  walk' = [walk EXCEPT !.pc = "walk",
                                !.docs = Extend(EmptyMap, 1, root),
                                !.entry = Extend(EmptyMap, 1, 0),
                                !.dependencies = Extend(EmptyMap, 1, NoneId),
                                !.queue = <<1>>]
    /\ UNCHANGED <<storeVars, otherThanWalk>>

\* lines 114-135: one turn of the while loop
IdentifyWalk ==
    /\ walk.pc = "walk"
    /\ walk.queue # <<>>
    /\ LET parent == Head(walk.queue)
           contents == get_contents(walk.repository, walk.entry[parent], 1)
       IN  walk' = ForContents([walk EXCEPT !.queue = Tail(@)], parent, contents)
    /\ UNCHANGED <<storeVars, otherThanWalk>>

\* contains_only_empty_folders of _remove_undocumentable_folders
RECURSIVE contains_only_empty_folders(_, _, _)
contains_only_empty_folders(folder_id, dependencies, docs) ==
    /\ \A doc_id \in DOMAIN dependencies :
         dependencies[doc_id] = folder_id /\ docs[doc_id].type = DIRECTORY
             => contains_only_empty_folders(doc_id, dependencies, docs)
    /\ ~\E doc_id \in DOMAIN dependencies :
         dependencies[doc_id] = folder_id /\ docs[doc_id].type # DIRECTORY

_remove_undocumentable_folders_keep_all(dependencies, docs) == docs

_remove_undocumentable_folders(dependencies, docs) ==
    LET documentable_docs_list ==
            {doc_id \in DOMAIN docs :
                \/ docs[doc_id].type = FILE
                \/ /\ docs[doc_id].type = DIRECTORY
                   /\ ~contains_only_empty_folders(doc_id, dependencies, docs)}
    IN  [doc_id \in documentable_docs_list |-> docs[doc_id]]

\* lines 137-168: the queue is empty; the documents are post-processed and
\* the repository is built, stored and returned
IdentifyFinish ==
    /\ walk.pc = "walk"
    /\ walk.queue = <<>>
    /\ LET post_processed_docs == _remove_undocumentable_folders(walk.dependencies, walk.docs)
           post_processed_dependencies ==
               [doc_id \in DOMAIN walk.dependencies \cap DOMAIN post_processed_docs |->
                   walk.dependencies[doc_id]]
           repo == [id |-> RepoId,
                    repo_name |-> "o/r",
                    root_doc |-> 1,
                    status |-> NOT_STARTED,
                    dependencies |-> post_processed_dependencies,
                    docs |-> post_processed_docs,
                    version |-> None,
                    owner |-> "u1"]
       IN  /\ batch_create_repo(repo)
           /\ walk' = [walk EXCEPT !.pc = "done", !.repo = repo]
    /\ UNCHANGED <<runs, fileJobs, response, otherThanWalk>>

----------------------------------------------------------------------------
(* services/data_service.py: batch_create_repo through _perform_batch *)

\* the number of operations _perform_batch commits at once
batch_limit == 500

\* the dependencies of a repository of n documents: a root and its files
FlatTree(n) == [d \in 1..n |-> IF d = 1 THEN NoneId ELSE 1]

\* batch_create_repo(repo) has not run yet, for a repository of n documents;
\* committed counts the operations of batch_ops that are committed
IdleBatch(n) ==
    [pc |-> "idle", repo |-> identify(FlatTree(n), "u1"), committed |-> 0]

\* batch_ops of batch_create_repo, lines 104-118: operation 1 sets the
\* repository, operation d + 1 sets document d
len_batch_ops(repo) == 1 + Cardinality(DOMAIN repo.docs)

\* lines 104-118 and 161: batch_ops is built and cut into batches
PerformBatch ==
    /\ batch.pc = "idle"
    /\ batch' = [batch EXCEPT !.pc = "commit"]
    /\ UNCHANGED <<documentation, repos, otherThanBatch>>

\* lines 162-170: the next batch is committed, all its operations at once, or
\* its commit fails and raises
BatchCommit ==
    /\ batch.pc = "commit"
    /\ \/ /\ batch' = [batch EXCEPT !.pc = "raised"]
          /\ UNCHANGED <<documentation, repos>>
       \/ LET repo == batch.repo
              last == IF batch.committed + batch_limit < len_batch_ops(repo)
                      THEN batch.committed + batch_limit
                      ELSE len_batch_ops(repo)
              batch_data == (batch.committed + 1)..last
              docs == {d \in DOMAIN repo.docs : d + 1 \in batch_data}
          IN  /\ repos' = IF 1 \in batch_data
                          THEN [r \in DOMAIN repos \cup {repo.id} |->
                                   IF r = repo.id THEN repo ELSE repos[r]]
                          ELSE repos
              /\ documentation' = [d \in DOMAIN documentation \cup docs |->
                                      IF d \in docs THEN repo.docs[d] ELSE documentation[d]]
              /\ batch' = [batch EXCEPT
                              !.committed = last,
                              !.pc = IF last = len_batch_ops(repo) THEN "done" ELSE "commit"]
    /\ UNCHANGED otherThanBatch

----------------------------------------------------------------------------
(* services/rag_service/text_chunker.py: TextChunker *)

\* A text is the sequence of its characters: a letter, a blank and a
\* punctuation mark.
TextChars == {"a", " ", "#"}

\* The tokenizer: a run of letters is one token, a punctuation mark is one
\* token, blanks are none.
Tokens(text) ==
    Cardinality({i \in 1..Len(text) :
                    \/ text[i] = "#"
                    \/ text[i] = "a" /\ (i = 1 \/ text[i - 1] # "a")})

\* _len: tokenizer.encode adds the two special tokens [CLS] and [SEP]
_len(text) == Tokens(text) + 2

\* str.isspace
isspace(text) == text # <<>> /\ \A i \in 1..Len(text) : text[i] = " "

Concat(chunks) ==
    LET RECURSIVE Join(_)
        Join(rest) == IF rest = <<>> THEN <<>> ELSE Head(rest) \o Join(Tail(rest))
    IN  Join(chunks)

\* re.split(separator, text) for a separator of one character: the pieces
\* between the separators; with keep, each separator starts the piece after it
\* (re.split with a group, then lines 108-111)
RECURSIVE Pieces(_, _, _, _)
Pieces(text, separator, keep, piece) ==
    IF text = <<>> THEN <<piece>>
    ELSE IF Head(text) = separator
    THEN <<piece>> \o Pieces(Tail(text), separator, keep, IF keep THEN <<separator>> ELSE <<>>)
    ELSE Pieces(Tail(text), separator, keep, Append(piece, Head(text)))

\* faulty variant of _split_text_with_regex: the separators are dropped
_split_text_without_separators(text, separator, keep_separator) ==
    LET splits == IF separator # ""
                  THEN Pieces(text, separator, FALSE, <<>>)
                  ELSE [i \in 1..Len(text) |-> <<text[i]>>]
    IN  SelectSeq(splits, LAMBDA piece : piece # <<>>)

_split_text_with_regex(text, separator, keep_separator) ==
    LET splits == IF separator # ""
                  THEN Pieces(text, separator, keep_separator, <<>>)
                  ELSE [i \in 1..Len(text) |-> <<text[i]>>]
    IN  SelectSeq(splits, LAMBDA piece : piece # <<>>)

\* split_text_evenly
split_text_evenly(text, num_chunks) ==
    LET k == Len(text) \div num_chunks
        m == Len(text) % num_chunks
        min(a, b) == IF a < b THEN a ELSE b
    IN  [j \in 1..num_chunks |->
            SubSeq(text, (j - 1) * k + min(j - 1, m) + 1, j * k + min(j, m))]

\* faulty variant of verify_chunks: only the first chunk is measured
verify_first_chunk(self, chunks) ==
    _len(chunks[1]) <= self.chunk_size

\* verify_chunks
verify_chunks(self, chunks) ==
    \A j \in 1..Len(chunks) : _len(chunks[j]) <= self.chunk_size

\* simple_chunk, from estimated_chunks on; the loop ends at the latest when
\* every chunk is one character
RECURSIVE simple_chunk_from(_, _, _)
simple_chunk_from(self, text, estimated_chunks) ==
    LET chunks == split_text_evenly(text, estimated_chunks)
    IN  IF verify_chunks(self, chunks) THEN chunks
        ELSE simple_chunk_from(self, text, estimated_chunks + 1)

\* math.ceil(token_count / chunk_size)
simple_chunk(self, text) ==
    simple_chunk_from(self, text, (_len(text) + self.chunk_size - 1) \div self.chunk_size)

\* recursive_chunk and its loop over the pieces. seperators is one list that
\* all calls share: pop() shortens it for the caller and for every later call.
\* Both return the chunks and the list as they leave it.
RECURSIVE recursive_chunk(_, _, _)
RECURSIVE ForChunks(_, _, _, _)
ForChunks(self, chunks, seperators, final_chunks) ==
    IF chunks = <<>> THEN [chunks |-> final_chunks, seperators |-> seperators]
    ELSE IF _len(Head(chunks)) <= self.chunk_size
    THEN ForChunks(self, Tail(chunks), seperators, Append(final_chunks, Head(chunks)))
    ELSE LET sub == recursive_chunk(self, Head(chunks), seperators)
         IN  ForChunks(self, Tail(chunks), sub.seperators, final_chunks \o sub.chunks)

recursive_chunk(self, text, seperators) ==
    IF _len(text) <= self.chunk_size
    THEN [chunks |-> <<text>>, seperators |-> seperators]
    ELSE IF Len(seperators) = 0
    THEN [chunks |-> simple_chunk(self, text), seperators |-> seperators]
    ELSE LET seperator == seperators[Len(seperators)]
             popped == SubSeq(seperators, 1, Len(seperators) - 1)
         IN  ForChunks(self, _split_text_with_regex(text, seperator, TRUE), popped, <<>>)

\* faulty variant of the merge tests of chunk: the size is not looked at
FitsAlways(self, chunk, other) == TRUE

\* the merge tests of chunk, lines 41 and 43
Fits(self, chunk, other) ==
    _len(chunk) + _len(other) <= self.chunk_size

\* the post-processing loop of chunk from index i on (lines 35-50);
\* processed_chunks[-1] raises IndexError when processed_chunks is empty
RECURSIVE PostProcess(_, _, _, _)
PostProcess(self, chunks, i, processed_chunks) ==
    IF i > Len(chunks) THEN [error |-> None, chunks |-> processed_chunks]
    ELSE IF _len(chunks[i]) < self.chunk_minimum
    THEN IF i > 1 /\ processed_chunks = <<>>
         THEN [error |-> "IndexError", chunks |-> <<>>]
         ELSE IF i > 1 /\ Fits(self, processed_chunks[Len(processed_chunks)], chunks[i])
         THEN PostProcess(self, chunks, i + 1,
                          [processed_chunks EXCEPT ![Len(processed_chunks)] = @ \o chunks[i]])
         ELSE IF i < Len(chunks) /\ Fits(self, chunks[i], chunks[i + 1])
         THEN PostProcess(self, [chunks EXCEPT ![i + 1] = chunks[i] \o @], i + 1, processed_chunks)
         ELSE IF ~isspace(chunks[i])
         THEN PostProcess(self, chunks, i + 1, Append(processed_chunks, chunks[i]))
         ELSE PostProcess(self, chunks, i + 1, processed_chunks)
    ELSE PostProcess(self, chunks, i + 1, Append(processed_chunks, chunks[i]))

\* chunk: what it returns or raises, and the separator list as it leaves it
chunk(self, text, seperators) ==
    LET split == recursive_chunk(self, text, seperators)
        processed == PostProcess(self, split.chunks, 1, <<>>)
    IN  [error |-> processed.error, chunks |-> processed.chunks,
         seperators |-> split.seperators]

\* The chunkers, texts and separator lists of the calls: separators are the
\* empty separator, the blank and the punctuation mark, each at most once.
TextChunker == [chunk_size : ChunkSizes, chunk_minimum : ChunkMinimums]

Texts == UNION {[1..n -> TextChars] : n \in 0..MaxText}

SeparatorLists ==
    {seps \in UNION {[1..n -> {"", " ", "#"}] : n \in 0..3} :
        \A i, j \in 1..Len(seps) : i # j => seps[i] # seps[j]}

NoCall == [error |-> None, chunks |-> <<>>, seperators |-> <<>>]

\* a chunker and a caller that holds text and the list seperators; given is
\* the list as the caller built it
NewChunker(self, text, seperators) ==
    [self |-> self, text |-> text, given |-> seperators, seperators |-> seperators,
     pc |-> "idle", first |-> NoCall, second |-> NoCall]

IdleChunker == NewChunker([chunk_size |-> 4, chunk_minimum |-> 3], <<>>, <<>>)

\* the caller calls chunk(text, seperators)
ChunkCall ==
    /\ chunker.pc = "idle"
    /\ LET call == chunk(chunker.self, chunker.text, chunker.seperators)
       IN  chunker' = [chunker EXCEPT !.pc = "called", !.first = call,
                                      !.seperators = call.seperators]
    /\ UNCHANGED otherThanChunker

\* the caller calls chunk(text, seperators) again, with the same list
ChunkAgain ==
    /\ chunker.pc = "called"
    /\ LET call == chunk(chunker.self, chunker.text, chunker.seperators)
       IN  chunker' = [chunker EXCEPT !.pc = "again", !.second = call,
                                      !.seperators = call.seperators]
    /\ UNCHANGED otherThanChunker

\* the caller calls simple_chunk(text)
SimpleChunkCall ==
    /\ chunker.pc = "idle"
    /\ chunker' = [chunker EXCEPT
            !.pc = "simple",
            !.first = [error |-> None, chunks |-> simple_chunk(chunker.self, chunker.text),
                       seperators |-> chunker.seperators]]
    /\ UNCHANGED otherThanChunker

----------------------------------------------------------------------------
(* services/rag_service/embedding_service.py: EmbeddingService *)

\* the largest group of chunks of one embedding request (line 74) and the
\* largest list of vectors of one upsert (line 95)
embedding_group == 2048

upsert_group == 100

\* TextChunker(chunk_size=250, chunk_minimum=50) of the embedding service
embedding_chunk_size == 250

embedding_chunk_minimum == 50

\* The first separators of markdown_regex, last tried; those after them are
\* regular expressions, which only a text above chunk_size meets.
markdown_regex == <<"", " ">>

\* the numbers of chunks of the documents that are embedded on their own:
\* those next to a multiple of a group of vectors or of a group of chunks
ChunkCounts ==
    {n \in 0..MaxChunks :
        \/ n % upsert_group \in {0, 1, upsert_group - 1}
        \/ n % embedding_group \in {0, 1, embedding_group - 1}}

IdleEmbed ==
    [pc |-> "idle", caller |-> None, user_id |-> None, q |-> <<>>, children |-> EmptyMap,
     completion_status |-> EmptyMap, doc_id |-> NoneId, status |-> None,
     chunks |-> 0, sent |-> 0, chunk_index |-> 0, error |-> None,
     calls |-> <<>>, upserts |-> <<>>, embedded |-> {}]

\* utils.format_repo: the tree is the root with its children, nodes in the
\* order of the dependencies, the status of a node that of the document in
\* the repository record; a root without children gives an empty tree
format_repo(repo) ==
    LET nodes == DOMAIN repo.dependencies
        ChildSeq(node) ==
            SelectSeq(IdSeq, LAMBDA c : c \in nodes /\ repo.dependencies[c] = node)
    IN  [tree |-> IF ChildSeq(repo.root_doc) = <<>> THEN <<>> ELSE <<repo.root_doc>>,
         children |-> [node \in nodes |-> ChildSeq(node)],
         completion_status |-> [node \in nodes |-> repo.docs[node].status]]

\* faulty variant of the namespace test: no namespace is ever found
NoNamespace(repo_id) ==
    FALSE

\* line 33: repo_id in namespaces
InNamespaces(repo_id) ==
    repo_id \in DOMAIN vectors

\* generate_markdown_embeddings_for_repo is called for the stored repository,
\* lines 32-40: the namespace test, get_user_repo and format_repo
generate_markdown_embeddings_for_repo(user_id) ==
    /\ embed.pc = "idle"
    /\ ~InSync
    /\ IF InNamespaces(RepoId)
       THEN embed' = [embed EXCEPT !.pc = "raised", !.error = "409", !.caller = "repo",
                                   !.user_id = user_id]
       ELSE IF RepoId \notin DOMAIN repos
       THEN embed' = [embed EXCEPT !.pc = "raised", !.error = "404", !.caller = "repo",
                                   !.user_id = user_id]
       ELSE IF repos[RepoId].owner # user_id
       THEN embed' = [embed EXCEPT !.pc = "raised", !.error = "401", !.caller = "repo",
                                   !.user_id = user_id]
       ELSE LET repo_formatted == format_repo(repos[RepoId])
            IN  embed' = [embed EXCEPT
                    !.pc = IF repo_formatted.tree = <<>> THEN "done" ELSE "repo",
                    !.caller = "repo",
                    !.user_id = user_id,
                    !.q = repo_formatted.tree,
                    !.children = repo_formatted.children,
                    !.completion_status = repo_formatted.completion_status]
    /\ response' = NoResponse
    /\ UNCHANGED <<documentation, repos, runs, fileJobs, vectors, chat, walk, batch, chunker, retrieval>>

\* lines 46-48 and the test of the while loop: the children of the node that
\* are COMPLETED join the queue
NextNode(e) ==
    LET completed == SelectSeq(e.children[e.doc_id],
                               LAMBDA child : e.completion_status[child] = COMPLETED)
        q == e.q \o completed
    IN  [e EXCEPT !.q = q, !.pc = IF q = <<>> THEN "done" ELSE "repo",
                  !.embedded = @ \cup {e.doc_id}]

\* lines 42-44 and 51-74: the next node is taken from the queue, its document
\* is read for the user, and its markdown is chunked; a markdown of None makes
\* the tokenizer raise
EmbedNode ==
    /\ embed.pc = "repo"
    /\ ~InSync
    /\ LET node == Head(embed.q)
           user_id == embed.user_id
           e == [embed EXCEPT !.q = Tail(@), !.doc_id = node]
       IN  IF node \notin DOMAIN documentation
           THEN embed' = [e EXCEPT !.pc = "raised", !.error = "404"]
           ELSE IF documentation[node].owner # user_id
           THEN embed' = [e EXCEPT !.pc = "raised", !.error = "401"]
           ELSE IF documentation[node].markdown_content = None
           THEN embed' = [e EXCEPT !.pc = "raised", !.error = "TypeError"]
           ELSE LET chunks == chunk([chunk_size |-> embedding_chunk_size,
                                     chunk_minimum |-> embedding_chunk_minimum],
                                    Chars(documentation[node].markdown_content),
                                    markdown_regex)
                    started == [e EXCEPT !.status = documentation[node].status,
                                         !.chunks = Len(chunks.chunks),
                                         !.sent = 0,
                                         !.chunk_index = 0]
                IN  IF chunks.error # None
                    THEN embed' = [e EXCEPT !.pc = "raised", !.error = chunks.error]
                    ELSE IF chunks.chunks = <<>>
                    THEN embed' = NextNode(started)
                    ELSE embed' = [started EXCEPT !.pc = "doc"]
    /\ response' = NoResponse
    /\ UNCHANGED <<documentation, repos, runs, fileJobs, vectors, chat, walk, batch, chunker, retrieval>>

\* faulty variant of the upsert test: only a full list of vectors is sent
WhenFull(len_vectors, i, n) ==
    len_vectors = upsert_group

\* line 95: the test that sends the len_vectors vectors gathered so far
ShouldUpsert(len_vectors, i, n) ==
    len_vectors = upsert_group \/ i = n - 1

\* faulty variant of Vector: the chunk is looked up in chunks instead of in
\* list_of_chunks
VectorFromChunks(chunk_index, first_chunk, index) ==
    [id |-> chunk_index, chunk_content |-> index]

\* lines 86-93: the vector of the embedding with the given index in its
\* request. list_of_chunks starts at chunk first_chunk of the document, so
\* list_of_chunks[index] is chunk first_chunk + index; a chunk is written as
\* its position in chunks, from 0.
Vector(chunk_index, first_chunk, index) ==
    [id |-> chunk_index, chunk_content |-> first_chunk + index]

\* lines 84-98: the loop over the n embeddings of one group, from embedding
\* i on with no vector gathered; it returns the lists of vectors of the
\* upserts, in order.  The vectors of embeddings i..j are gathered up to the
\* first j that passes the test of line 95; vectors that are gathered when
\* the loop ends are not sent.
RECURSIVE ForEmbeddings(_, _, _, _, _)
ForEmbeddings(i, n, chunk_index, first_chunk, upserted) ==
    LET Sent(j) == ShouldUpsert(j - i + 1, j, n)
    IN  IF ~\E j \in i..(n - 1) : Sent(j) THEN upserted
        ELSE LET j == CHOOSE first \in i..(n - 1) :
                          Sent(first) /\ \A k \in i..(first - 1) : ~Sent(k)
                 vectors_list == [k \in 1..(j - i + 1) |->
                                     Vector(chunk_index + k - 1, first_chunk, i + k - 1)]
             IN  ForEmbeddings(j + 1, n, chunk_index + (j - i + 1), first_chunk,
                               Append(upserted, vectors_list))

Range(seq) == {seq[i] : i \in 1..Len(seq)}

\* PineconeClient.upsert of each list of ids, for document doc_id, to the
\* namespace repo_id
Upserted(index, repo_id, doc_id, upserted) ==
    LET ids == UNION {{<<doc_id, k>> : k \in Range(upserted[u])} : u \in 1..Len(upserted)}
    IN  IF upserted = <<>> THEN index
        ELSE [ns \in DOMAIN index \cup {repo_id} |->
                 IF ns = repo_id
                 THEN (IF ns \in DOMAIN index THEN index[ns] ELSE {}) \cup ids
                 ELSE index[ns]]

\* lines 77-98: the embedding request of the next group returns or raises,
\* and the vectors of the group are upserted
EmbedGroup ==
    /\ embed.pc = "doc"
    /\ ~InSync
    /\ \/ /\ embed' = [embed EXCEPT !.pc = "raised", !.error = "generate_embedding"]
          /\ UNCHANGED vectors
       \/ LET rest == embed.chunks - embed.sent
              inputs == IF rest < embedding_group THEN rest ELSE embedding_group
          IN  \E requests \in {ForEmbeddings(0, inputs, embed.chunk_index, embed.sent, <<>>)} :
              \E upserted \in {[u \in 1..Len(requests) |->
                                   [k \in 1..Len(requests[u]) |-> requests[u][k].id]]} :
                LET e == [embed EXCEPT
                             !.sent = @ + inputs,
                             !.chunk_index = @ + inputs,
                             !.calls = Append(@, [doc_id |-> embed.doc_id,
                                                  status |-> embed.status,
                                                  inputs |-> inputs]),
                             !.upserts = @ \o [u \in 1..Len(requests) |->
                                 [doc_id |-> embed.doc_id, ids |-> upserted[u],
                                  chunk_content |-> [k \in 1..Len(requests[u]) |->
                                                        requests[u][k].chunk_content]]]]
                IN  /\ vectors' = Upserted(vectors, RepoId, embed.doc_id, upserted)
                    /\ embed' = IF e.sent < e.chunks THEN e
                                ELSE IF e.caller = "doc"
                                THEN [e EXCEPT !.pc = "done", !.embedded = @ \cup {e.doc_id}]
                                ELSE NextNode(e)
    /\ response' = NoResponse
    /\ UNCHANGED <<documentation, repos, runs, fileJobs, chat, walk, batch, chunker, retrieval>>

\* generate_markdown_embeddings_for_doc is called on its own, lines 51-76,
\* for a document whose markdown the chunker cuts into embed.chunks chunks
generate_markdown_embeddings_for_doc ==
    /\ embed.pc = "call"
    /\ embed' = IF embed.chunks = 0
                THEN [embed EXCEPT !.pc = "done", !.embedded = @ \cup {embed.doc_id}]
                ELSE [embed EXCEPT !.pc = "doc"]
    /\ UNCHANGED <<otherThanEmbed, vectors>>

----------------------------------------------------------------------------
(* Requests of a user who owns nothing: routers/file_docs.py, routers/repos.py
   and services/rag_service/search_service.py *)

Strangers == {"u2"}

\* GET /file-docs/{doc_id}: get_user_documentation and the answer
get_file_docs(user_id, doc_id) ==
    /\ ~InSync
    /\ response' =
         IF doc_id \notin DOMAIN documentation THEN Respond("get_file_docs", doc_id, 404)
         ELSE IF documentation[doc_id].owner # user_id THEN Respond("get_file_docs", doc_id, 401)
         ELSE Respond("get_file_docs", doc_id, 200)
    /\ UNCHANGED <<documentation, repos, runs, fileJobs, toolVars>>

\* PUT /file-docs/{doc_id}: the user id of the token is handed on, and
\* regenerate_doc reads the document with get_documentation, for any user
regenerate_file_docs(user_id, doc_id) ==
    regenerate_doc(doc_id)

\* GET /repos/{repo_id}/search: SearchService.search embeds the query and asks
\* the vector index for the namespace; it reads neither the repository nor
\* its owner.  The user id arrives as top_k, which the index takes or refuses.
search_repo(user_id) ==
    /\ ~InSync
    /\ \E accepted \in BOOLEAN :
         response' = Respond("search_repo", NoneId, IF accepted THEN 200 ELSE 500)
    /\ UNCHANGED <<documentation, repos, runs, fileJobs, toolVars>>

StrangerRequests ==
    \/ \E u \in Strangers, d \in DocIds \cup {FileDocId} : get_file_docs(u, d)
    \/ \E u \in Strangers, d \in DocIds \cup {FileDocId} : delete_user_documentation(u, d)
    \/ \E u \in Strangers, d \in DocIds \cup {FileDocId} : regenerate_file_docs(u, d)
    \/ \E u \in Strangers : generate_repo_docs(u)
    \/ \E u \in Strangers : search_repo(u)

----------------------------------------------------------------------------
(* Specification of the repository pipeline *)

Init ==
    /\ documentation = EmptyMap
    /\ repos = EmptyMap
    /\ runs = <<>>
    /\ fileJobs = <<>>
    /\ response = NoResponse
    /\ chat = IdleChat
    /\ walk = IdleWalk(<<>>)
    /\ batch = IdleBatch(0)
    /\ chunker = IdleChunker
    /\ embed = IdleEmbed
    /\ vectors = EmptyMap
    /\ retrieval = IdleRetrieval

\* the requests of the repository routes, for source trees whose identified
\* documents number at most n
Requests(n) ==
    \/ \E p \in {t \in Trees : Len(t) <= n}, u \in Users : upload_repo(p, u)
    \/ \E p \in {t \in Trees : Len(t) <= n}, u \in Users : create_repo_docs(p, u)
    \/ \E u \in Users : generate_repo_docs(u)

Scheduler ==
    \/ \E r \in 1..MaxRuns : RunStart(r)
    \/ \E r \in 1..MaxRuns : BatchEnd(r)
    \/ \E r \in 1..MaxRuns, d \in DocIds : GenStart(r, d)
    \/ \E r \in 1..MaxRuns, d \in DocIds : GenSync(r, d)
    \/ \E r \in 1..MaxRuns, d \in DocIds : GenJson(r, d)
    \/ \E r \in 1..MaxRuns, d \in DocIds : GenMarkdown(r, d)

\* the repository pipeline alone
NextRepo == Requests(MaxDocs) \/ Scheduler

SpecRepo == Init /\ [][NextRepo]_vars

FileRequests ==
    \/ generate_file_docs
    \/ \E d \in DocIds \cup {FileDocId} : regenerate_doc(d)

FileJobSteps ==
    \/ \E j \in 1..MaxFileJobs : FileJson(j)
    \/ \E j \in 1..MaxFileJobs : FileMarkdown(j)

\* every operation, over the smaller repositories
Next == Requests(SmallDocs) \/ Scheduler \/ FileRequests \/ FileJobSteps

Spec == Init /\ [][Next]_vars

DeleteRequests ==
    \E u \in Users, d \in DocIds \cup {FileDocId} : delete_user_documentation(u, d)

\* every operation and the deletions, over the smallest repositories
NextDelete ==
    Requests(DeleteDocs) \/ Scheduler \/ FileRequests \/ FileJobSteps \/ DeleteRequests

SpecDelete == Init /\ [][NextDelete]_vars

\* identify alone, on every source tree of at most MaxEntries entries
InitIdentify ==
    /\ documentation = EmptyMap
    /\ repos = EmptyMap
    /\ runs = <<>>
    /\ fileJobs = <<>>
    /\ response = NoResponse
    /\ chat = IdleChat
    /\ \E tree \in SourceTrees : walk = IdleWalk(tree)
    /\ batch = IdleBatch(0)
    /\ chunker = IdleChunker
    /\ embed = IdleEmbed
    /\ vectors = EmptyMap
    /\ retrieval = IdleRetrieval

NextIdentify == IdentifyStart \/ IdentifyWalk \/ IdentifyFinish

SpecIdentify == InitIdentify /\ [][NextIdentify]_vars

\* batch_create_repo alone, on repositories of MinBatchDocs to MaxBatchDocs
\* documents
InitBatch ==
    /\ documentation = EmptyMap
    /\ repos = EmptyMap
    /\ runs = <<>>
    /\ fileJobs = <<>>
    /\ response = NoResponse
    /\ chat = IdleChat
    /\ walk = IdleWalk(<<>>)
    /\ \E n \in MinBatchDocs..MaxBatchDocs : batch = IdleBatch(n)
    /\ chunker = IdleChunker
    /\ embed = IdleEmbed
    /\ vectors = EmptyMap
    /\ retrieval = IdleRetrieval

NextBatch == PerformBatch \/ BatchCommit

SpecBatch == InitBatch /\ [][NextBatch]_vars

\* the text chunker alone, on every chunker, text and separator list
InitChunker ==
    /\ documentation = EmptyMap
    /\ repos = EmptyMap
    /\ runs = <<>>
    /\ fileJobs = <<>>
    /\ response = NoResponse
    /\ chat = IdleChat
    /\ walk = IdleWalk(<<>>)
    /\ batch = IdleBatch(0)
    /\ \E self \in TextChunker, text \in Texts, seperators \in SeparatorLists :
         chunker = NewChunker(self, text, seperators)
    /\ embed = IdleEmbed
    /\ vectors = EmptyMap
    /\ retrieval = IdleRetrieval

NextChunker == ChunkCall \/ ChunkAgain

SpecChunker == InitChunker /\ [][NextChunker]_vars

\* simple_chunk alone, on every chunker and text
InitSimpleChunk ==
    /\ documentation = EmptyMap
    /\ repos = EmptyMap
    /\ runs = <<>>
    /\ fileJobs = <<>>
    /\ response = NoResponse
    /\ chat = IdleChat
    /\ walk = IdleWalk(<<>>)
    /\ batch = IdleBatch(0)
    /\ \E self \in TextChunker, text \in Texts : chunker = NewChunker(self, text, <<>>)
    /\ embed = IdleEmbed
    /\ vectors = EmptyMap
    /\ retrieval = IdleRetrieval

NextSimpleChunk == SimpleChunkCall

SpecSimpleChunk == InitSimpleChunk /\ [][NextSimpleChunk]_vars

\* generate_markdown_embeddings_for_doc alone, on a COMPLETED document of
\* every number of chunks in ChunkCounts
InitEmbedDoc ==
    /\ documentation = EmptyMap
    /\ repos = EmptyMap
    /\ runs = <<>>
    /\ fileJobs = <<>>
    /\ response = NoResponse
    /\ chat = IdleChat
    /\ walk = IdleWalk(<<>>)
    /\ batch = IdleBatch(0)
    /\ chunker = IdleChunker
    /\ \E n \in ChunkCounts :
         embed = [IdleEmbed EXCEPT !.pc = "call", !.caller = "doc", !.doc_id = 1,
                                   !.status = COMPLETED, !.chunks = n]
    /\ vectors = EmptyMap
    /\ retrieval = IdleRetrieval

NextEmbedDoc == generate_markdown_embeddings_for_doc \/ EmbedGroup

SpecEmbedDoc == InitEmbedDoc /\ [][NextEmbedDoc]_vars

\* the embedding of the stored repository next to the repository pipeline,
\* on trees of at most DeleteDocs documents; the vector index may hold the
\* namespace of the repository from an earlier embedding
EmbeddedBefore == [ns \in {RepoId} |-> {<<1, 0>>}]

InitEmbed ==
    /\ documentation = EmptyMap
    /\ repos = EmptyMap
    /\ runs = <<>>
    /\ fileJobs = <<>>
    /\ response = NoResponse
    /\ chat = IdleChat
    /\ walk = IdleWalk(<<>>)
    /\ batch = IdleBatch(0)
    /\ chunker = IdleChunker
    /\ embed = IdleEmbed
    /\ vectors \in {EmptyMap, EmbeddedBefore}
    /\ retrieval = IdleRetrieval

NextEmbed ==
    \/ Requests(DeleteDocs)
    \/ Scheduler
    \/ \E u \in Users : generate_markdown_embeddings_for_repo(u)
    \/ EmbedNode

SpecEmbed == InitEmbed /\ [][NextEmbed]_vars

\* the requests of a stranger next to the pipeline of the owner, on trees of
\* at most DeleteDocs documents
NextOwner ==
    \/ Requests(DeleteDocs)
    \/ Scheduler
    \/ generate_file_docs
    \/ FileJobSteps
    \/ StrangerRequests

SpecOwner == Init /\ [][NextOwner]_vars

\* ChatService.search alone, on every list of at most MaxHits hits and every
\* store of the documents they name
InitSearch ==
    /\ \E owners \in [SearchDocs -> {"u1", None}] :
         documentation = [d \in SearchDocs |-> StoredDoc(d, owners[d])]
    /\ repos = EmptyMap
    /\ runs = <<>>
    /\ fileJobs = <<>>
    /\ response = NoResponse
    /\ chat = IdleChat
    /\ walk = IdleWalk(<<>>)
    /\ batch = IdleBatch(0)
    /\ chunker = IdleChunker
    /\ embed = IdleEmbed
    /\ vectors = EmptyMap
    /\ \E search_results \in Hits :
         retrieval = [IdleRetrieval EXCEPT !.search_results = search_results]

NextSearch == \E u \in Users : ChatServiceSearch(u)

SpecSearch == InitSearch /\ [][NextSearch]_vars

\* the chat service alone
NextChat == ChatRequest \/ ChatStep \/ ChatSearch \/ ChatFallback

SpecChat == Init /\ [][NextChat]_vars

\* the repository pipeline with the event loop running every ready task and
\* every LLM call returning or raising
FairSpecRepo == SpecRepo /\ WF_vars(Scheduler)

----------------------------------------------------------------------------
(* Properties of the scheduler *)

RunIds == 1..Len(runs)

\* the documents of run r's dependencies map, and the children of d in it
DocsOf(r) == DOMAIN runs[r].firestore_repo.dependencies

ChildrenOf(r, d) == {c \in DocsOf(r) : runs[r].firestore_repo.dependencies[c] = d}

\* the generate_doc tasks of a run that have started and not finished
InFlight(run) == {d \in DOMAIN run.gen : run.gen[d].pc \in {"sync", "json", "markdown"}}

\* C1: in a scheduler run, generate_doc is invoked for a document only after
\* every child of it in the dependencies map was set COMPLETED by that run,
\* hence before the parent is set IN_PROGRESS or COMPLETED.
C1_ChildrenCompletedFirst ==
    \A r \in RunIds : \A d \in DocsOf(r) :
        runs[r].calls[d] > 0 => \A c \in ChildrenOf(r, d) : c \in runs[r].completed

\* a directory below the root is being generated
C1_Witness ==
    \E r \in RunIds : \E d \in DocsOf(r) :
        /\ d # runs[r].firestore_repo.root_doc
        /\ ChildrenOf(r, d) # {}
        /\ d \in InFlight(runs[r])

\* C2: a run in which no generate_doc call fails ends; when it ends every
\* document of the dependencies map was found NOT_STARTED, set IN_PROGRESS and
\* then COMPLETED by exactly one generate_doc call, and the repository is
\* marked COMPLETED.
C2_RunCompletesEveryDocument ==
    /\ [][\A r \in RunIds :
            (runs[r].pc # "done" /\ runs'[r].pc = "done") =>
                /\ repos'[RepoId].status = COMPLETED
                /\ \A d \in DocsOf(r) :
                    /\ runs'[r].calls[d] = 1
                    /\ runs'[r].writes[d] = <<NOT_STARTED, IN_PROGRESS, COMPLETED>>
                    /\ documentation'[d].status = COMPLETED]_vars
    /\ \A r \in 1..MaxRuns :
            (Len(runs) >= r) ~>
                (Len(runs) >= r /\ (runs[r].pc \in {"done", "raised"} \/ runs[r].failed # {}))

\* a run over three documents or more has ended with the repository COMPLETED
C2_Witness ==
    \E r \in RunIds :
        /\ runs[r].pc = "done"
        /\ Cardinality(DocsOf(r)) >= 3
        /\ repos[RepoId].status = COMPLETED

\* C3: within one run generate_doc is invoked at most once per document.
C3_InvokedAtMostOnce ==
    \A r \in RunIds : \A d \in DocIds : runs[r].calls[d] <= 1

\* the root is being generated in a third round, every document invoked once
C3_Witness ==
    \E r \in RunIds :
        /\ runs[r].firestore_repo.root_doc \in InFlight(runs[r])
        /\ \E d \in DocsOf(r) : ChildrenOf(r, d) # {} /\ d \in runs[r].completed
        /\ \A d \in DocsOf(r) : runs[r].calls[d] = 1

\* C4: at most batch_size generate_doc calls of a run are in flight, and a
\* task of a batch starts only when every task of the earlier batches of the
\* round has finished.
C4_BoundedConcurrency ==
    \A r \in RunIds :
        LET run == runs[r]
        IN  /\ Cardinality(InFlight(run)) <= BatchSize
            /\ \A k \in 1..Len(run.leaves) : \A l \in 1..Len(run.leaves) :
                  (run.gen[run.leaves[l]].pc # "idle" /\ (k - 1) \div BatchSize < (l - 1) \div BatchSize)
                      => Finished(run.gen[run.leaves[k]])

\* a task of the second batch of a round is in flight
C4_Witness ==
    \E r \in RunIds :
        /\ Len(runs[r].leaves) > BatchSize
        /\ runs[r].i > 0
        /\ InFlight(runs[r]) # {}

----------------------------------------------------------------------------
(* Properties of failure handling *)

\* C5: when a generate_doc task of a round failed and the run is aborted with
\* that error, the repository's stored status is FAILED.
C5_RepoFailedOnAbort ==
    \A r \in RunIds :
        (runs[r].pc = "raised" /\ runs[r].error = "generate")
            => repos[runs[r].firestore_repo.id].status = FAILED

\* C6: once a generate_doc call of a run has failed, no document of that
\* repository leaves NOT_STARTED.
C6_NoStartAfterFailure ==
    [][\A r \in RunIds : \A d \in DocsOf(r) :
            (runs[r].failed # {} /\ documentation[d].status = NOT_STARTED)
                => documentation'[d].status = NOT_STARTED]_vars

\* C7: a failure leaves the documents completed so far COMPLETED, and when
\* the run is aborted the FAILED documents of the repository are exactly those
\* whose own generate_doc call failed.
C7_ExactlyTheFailedAreFailed ==
    [][\A r \in RunIds :
            /\ \A d \in DocsOf(r) :
                  (runs[r].failed # {} /\ d \in runs[r].completed /\ runs'[r].pc # "queued")
                      => documentation'[d].status = COMPLETED
            /\ (runs[r].pc = "batch" /\ runs'[r].pc = "raised")
                  => {d \in DocsOf(r) : documentation'[d].status = FAILED} = runs'[r].failed]_vars

\* C8: whenever a generate_doc call ends with an exception, the document's
\* stored status is FAILED.
C8_FailedOnAnyException ==
    [][\A r \in RunIds : \A d \in DOMAIN runs[r].gen :
            (runs[r].gen[d].pc # "raised" /\ d \in DOMAIN runs'[r].gen /\ runs'[r].gen[d].pc = "raised")
                => documentation'[d].status = FAILED]_vars

----------------------------------------------------------------------------
(* Properties of the document lifecycle *)

\* the status changes a stored document may undergo
LegalTransitions ==
    {<<NOT_STARTED, IN_PROGRESS>>, <<IN_PROGRESS, COMPLETED>>, <<IN_PROGRESS, FAILED>>,
     <<COMPLETED, IN_PROGRESS>>, <<FAILED, IN_PROGRESS>>}

\* a generation of d starts in this step: a generate_doc call of a run, or a
\* single-file task queued for it
Starts(d) ==
    \/ d \in DocIds /\ \E r \in RunIds : runs'[r].calls[d] > runs[r].calls[d]
    \/ /\ Len(fileJobs') > Len(fileJobs)
       /\ fileJobs'[Len(fileJobs')].doc_id = d

\* C9: a stored status changes only along NOT_STARTED -> IN_PROGRESS,
\* IN_PROGRESS -> COMPLETED, IN_PROGRESS -> FAILED, COMPLETED -> IN_PROGRESS
\* and FAILED -> IN_PROGRESS; the documents identify creates start
\* NOT_STARTED; no generation starts for a document that is IN_PROGRESS.
C9_StatusLifecycle ==
    [][\A d \in DOMAIN documentation' :
            IF d \in DOMAIN documentation
            THEN /\ \/ documentation'[d].status = documentation[d].status
                    \/ <<documentation[d].status, documentation'[d].status>> \in LegalTransitions
                 /\ documentation[d].status = IN_PROGRESS => ~Starts(d)
            ELSE d \in DocIds => documentation'[d].status = NOT_STARTED]_vars

\* a COMPLETED single-file document was regenerated and is IN_PROGRESS again
C9_Witness ==
    /\ response = Respond("regenerate_doc", FileDocId, 202)
    /\ documentation[FileDocId].status = IN_PROGRESS
    /\ \E d \in DocIds : d \in DOMAIN documentation /\ documentation[d].status = COMPLETED

\* C10: regenerate_doc on a document that is not COMPLETED or FAILED answers
\* 400, queues no task and leaves the store unchanged; on a COMPLETED or
\* FAILED document (the source host answering) it sets IN_PROGRESS and queues
\* exactly one task.
C10_RegenerateOnlyFromTerminal ==
    [][\A d \in DOMAIN documentation :
            (response'.op = "regenerate_doc" /\ response'.id = d /\ response'.code # 500) =>
                IF documentation[d].status \notin {COMPLETED, FAILED}
                THEN /\ response'.code = 400
                     /\ UNCHANGED <<documentation, fileJobs>>
                ELSE /\ documentation'[d].status = IN_PROGRESS
                     /\ Len(fileJobs') = Len(fileJobs) + 1
                     /\ fileJobs'[Len(fileJobs')].doc_id = d]_vars

----------------------------------------------------------------------------
(* Properties of deletion and of concurrent generations *)

\* C11: a delete request for a document that is IN_PROGRESS answers 400 and
\* leaves the document stored; a delete request by the stored owner for a
\* document in another status removes it.
C11_DeleteRefusedWhileInProgress ==
    [][\A d \in DOMAIN documentation :
            (response'.op = "delete_file_docs" /\ response'.id = d) =>
                IF documentation[d].status = IN_PROGRESS
                THEN response'.code = 400 /\ d \in DOMAIN documentation'
                ELSE documentation[d].owner \in Users => d \notin DOMAIN documentation']_vars

\* the generations in flight for document d: the generate_doc calls of the
\* runs and the single-file background tasks
Generations(d) ==
    Cardinality({r \in RunIds : d \in InFlight(runs[r])})
    + Cardinality({j \in 1..Len(fileJobs) :
                      fileJobs[j].doc_id = d /\ fileJobs[j].pc \in {"json", "markdown"}})

\* C12: at any moment at most one generation (generate_doc call or
\* single-file background task) is in flight for a document.
C12_OneGenerationPerDocument ==
    \A d \in DocIds \cup {FileDocId} : Generations(d) <= 1

\* a regenerate request arrived while the document's generation was in
\* flight and was refused
C12_Witness ==
    \E d \in DocIds \cup {FileDocId} :
        /\ Generations(d) = 1
        /\ response = Respond("regenerate_doc", d, 400)

----------------------------------------------------------------------------
(* Properties of the stored document *)

\* a stored value that holds nothing: None, the empty string, the empty dict
Empty(v) == v \in {None, "", "{}"}

\* the fields generate_doc is not meant to change
FrameFields == {"owner", "repo", "github_url", "relative_path", "type", "size"}

\* C13: a stored document with status COMPLETED has a non-empty
\* markdown_content and an extracted_data with a description.
C13_CompletedHasContent ==
    \A d \in DOMAIN documentation :
        documentation[d].status = COMPLETED =>
            /\ ~Empty(documentation[d].markdown_content)
            /\ Description(documentation[d].extracted_data) # None

\* C14: a stored document whose status is not COMPLETED has empty
\* extracted_data and markdown_content.
C14_ContentOnlyWhenCompleted ==
    \A d \in DOMAIN documentation :
        documentation[d].status # COMPLETED =>
            /\ Empty(documentation[d].extracted_data)
            /\ Empty(documentation[d].markdown_content)

\* C15: the status updates of generate_doc leave owner, repo, github_url,
\* relative_path, type and size of the stored document unchanged.
C15_GenerateDocKeepsFrame ==
    [][\A d \in DOMAIN documentation : \A r \in RunIds :
            (d \in DOMAIN runs[r].gen /\ d \in DOMAIN runs'[r].gen
                /\ runs'[r].gen[d].pc # runs[r].gen[d].pc)
                => \A f \in FrameFields : documentation'[d][f] = documentation[d][f]]_vars

\* the documents of the stored repository all exist with status COMPLETED
AllDocsCompleted ==
    \A d \in DOMAIN repos[RepoId].dependencies :
        d \in DOMAIN documentation /\ documentation[d].status = COMPLETED

\* C16: the stored status of a repository (with documents) is COMPLETED if
\* and only if every document of the repository has status COMPLETED.
C16_RepoCompletedIffDocsCompleted ==
    (RepoId \in DOMAIN repos /\ DOMAIN repos[RepoId].dependencies # {})
        => (repos[RepoId].status = COMPLETED <=> AllDocsCompleted)

\* the height of node d of the tree dgraph: the longest path down to a leaf
RECURSIVE Height(_, _)
Height(dgraph, d) ==
    LET children == {c \in DOMAIN dgraph : dgraph[c] = d}
    IN  IF children = {} THEN 0
        ELSE 1 + (CHOOSE h \in {Height(dgraph, c) : c \in children} :
                      \A c \in children : Height(dgraph, c) <= h)

\* C32: round k (k = 0, 1, ...) of a run processes exactly the documents of
\* height k, every round has a leaf, no in-degree is negative, and a run that
\* ends without failure has taken height(root) + 1 rounds.
C32_RoundsByHeight ==
    \A r \in 1..Len(runs) :
        LET run == runs[r]
            dgraph == run.firestore_repo.dependencies
        IN  /\ \A n \in DOMAIN run.indegree : run.indegree[n] >= 0
            /\ run.pc = "batch" =>
                 /\ run.leaves # <<>>
                 /\ {run.leaves[k] : k \in 1..Len(run.leaves)} =
                        {d \in DOMAIN dgraph : Height(dgraph, d) = run.round - 1}
            /\ run.pc = "done" => run.round = Height(dgraph, run.firestore_repo.root_doc) + 1

\* a run has ended after three rounds on a tree whose root has a leaf child
\* next to a directory
C32_Witness ==
    \E r \in 1..Len(runs) :
        LET dgraph == runs[r].firestore_repo.dependencies
        IN  /\ runs[r].pc = "done"
            /\ runs[r].round = 3
            /\ \E c \in DOMAIN dgraph :
                 dgraph[c] = runs[r].firestore_repo.root_doc /\ Height(dgraph, c) = 0

\* C33: a stored repository is IN_PROGRESS only while a run of it is queued
\* or running: when the run has ended, by success, by a failed generate_doc or
\* by a failed validation, the stored status is no longer IN_PROGRESS.
C33_InProgressHasRun ==
    (RepoId \in DOMAIN repos /\ repos[RepoId].status = IN_PROGRESS)
        => \E r \in 1..Len(runs) : runs[r].pc \in {"queued", "batch"}

\* C34: when every single-file job of the single-file document has ended,
\* the document is no longer IN_PROGRESS: it is COMPLETED when its last job
\* succeeded and FAILED when it raised.
C34_FileJobLeavesInProgress ==
    LET jobs == {j \in 1..Len(fileJobs) : fileJobs[j].doc_id = FileDocId}
    IN  (/\ FileDocId \in DOMAIN documentation
         /\ jobs # {}
         /\ \A j \in jobs : fileJobs[j].pc \in {"done", "raised"})
        => LET last == CHOOSE j \in jobs : \A k \in jobs : k <= j
           IN  documentation[FileDocId].status =
                   IF fileJobs[last].pc = "done" THEN COMPLETED ELSE FAILED

\* C35: a generate request of the owner for a repository stored IN_PROGRESS
\* is answered 400, changes no document and no repository, and the run it may
\* have queued calls generate_doc for no document; for a repository in
\* another status the request is answered 202, stores IN_PROGRESS and queues
\* one run.
C35_GenerateRefusedWhileInProgress ==
    [][\A u \in Users :
        (generate_repo_docs(u) /\ repos[RepoId].owner = u) =>
            IF repos[RepoId].status = IN_PROGRESS
            THEN /\ response'.code = 400
                 /\ UNCHANGED <<documentation, repos>>
                 /\ \A r \in 1..Len(runs') :
                        runs'[r].firestore_repo.status = IN_PROGRESS
                            => \A d \in DocIds : runs'[r].calls[d] = 0
            ELSE /\ response'.code = 202
                 /\ repos'[RepoId].status = IN_PROGRESS
                 /\ Len(runs') = Len(runs) + 1]_vars

----------------------------------------------------------------------------
(* Claims about the chat service *)

\* C17: whatever the language model answers and whatever the searches return,
\* chat yields at most 5 events, exactly one of them has action Finish, and
\* that event is the last one. Stated of a chat that has ended without a
\* failure of the language model service itself.
C17_ExactlyOneFinishLast ==
    (chat.pc = "done" \/ (chat.pc = "raised" /\ chat.error = "TypeError")) =>
        /\ Len(chat.events) <= 5
        /\ Cardinality({k \in 1..Len(chat.events) : chat.events[k].action = "Finish"}) = 1
        /\ chat.events[Len(chat.events)].action = "Finish"

\* C18: after a Search has been executed and its result appended, the next
\* event of the loop is Finish; a further Search is neither emitted nor
\* executed.
C18_FinishFollowsSearch ==
    \A k \in 1..(Len(chat.events) - 1) :
        chat.events[k].action = "Search" => chat.events[k + 1].action = "Finish"

\* C30: a turn whose message cannot be parsed emits no event and ends the
\* loop, the loop also ends after 4 iterations without Finish, and the
\* fallback that follows either of them emits its answer as the Finish event
\* and ends the chat.
C30_FallbackFinishes ==
    [][/\ (chat.pc = "llm" /\ chat'.pc = "fallback") => chat'.events = chat.events
       /\ (chat.pc = "search" /\ chat.i + 1 = max_steps /\ chat'.pc # "search")
            => chat'.pc = "fallback"
       /\ chat.pc = "fallback" =>
            /\ chat'.pc = "done"
            /\ Len(chat'.events) = Len(chat.events) + 1
            /\ SubSeq(chat'.events, 1, Len(chat.events)) = chat.events
            /\ chat'.events[Len(chat'.events)].action = "Finish"]_vars

\* C31: when ChatService.search returns, the documents it reports are the
\* distinct doc_ids that have a hit of score above 0.6, each once and with the
\* score of its first such hit, and the count it reports is their number.
C31_SearchReportsRelevantOnce ==
    retrieval.pc = "returned" =>
        LET hits == retrieval.search_results
            docs == retrieval.docs
            above == {k \in 1..Len(hits) : hits[k].score > 6}
        IN  /\ \A i, j \in 1..Len(docs) : docs[i].doc_id = docs[j].doc_id => i = j
            /\ {docs[i].doc_id : i \in 1..Len(docs)} = {hits[k].doc_id : k \in above}
            /\ \A i \in 1..Len(docs) :
                 \E k \in above :
                    /\ hits[k].doc_id = docs[i].doc_id
                    /\ hits[k].score = docs[i].score
                    /\ \A e \in above : hits[e].doc_id = docs[i].doc_id => k <= e
            /\ retrieval.output.count = Cardinality({hits[k].doc_id : k \in above})
            /\ \A i \in 1..Len(docs) :
                 retrieval.output.documentation_summary[i].score = docs[i].score

\* a document with a hit of 0.6, then a hit above 0.6 and then a higher one
\* was reported
C31_Witness ==
    /\ retrieval.pc = "returned"
    /\ Len(retrieval.docs) = 1
    /\ Len(retrieval.search_results) = 3
    /\ \A k \in 1..3 : retrieval.search_results[k].doc_id = 2
    /\ retrieval.search_results[1].score = 6
    /\ retrieval.search_results[2].score = 7
    /\ retrieval.search_results[3].score = 8

----------------------------------------------------------------------------
(* Claims about the identifier *)

\* the names from the root to the entry of a path, the "/" between them dropped
RECURSIVE Split(_)
Split(path) ==
    IF \E i \in 1..Len(path) : path[i] = "/"
    THEN LET i == find(path, "/") + 1
         IN  <<SubSeq(path, 1, i - 1)>> \o Split(SubSeq(path, i + 1, Len(path)))
    ELSE <<path>>

\* C19: the output of identify has no file whose name ends with a suffix of
\* the exclusion list, is larger than 247,500 bytes or begins with "." or
\* "_", no directory whose name begins with ".", "_" or ".." or is
\* node_modules or on the exclusion list, and nothing below such a directory.
C19_ExcludedAbsent ==
    walk.pc = "done" =>
        \A d \in DOMAIN walk.repo.docs :
            LET doc == walk.repo.docs[d]
                names == Split(doc.relative_path)
                name == names[Len(names)]
            IN  doc.relative_path # <<>> =>
                    /\ doc.type = FILE =>
                         /\ ~\E ext \in exclude_exts : endswith(name, ext)
                         /\ doc.size \in Nat => doc.size <= 247500
                         /\ name[1] \notin {".", "_"}
                    /\ \A k \in 1..Len(names) :
                         k < Len(names) \/ doc.type = DIRECTORY =>
                             /\ names[k][1] \notin {".", "_"}
                             /\ names[k] # <<"n", "o", "d", "e", "_", "m", "o", "d", "u", "l", "e", "s">>
                             /\ names[k] \notin exclude_dirs

\* the ancestors of entry n of a source tree, n included (0 is the root)
RECURSIVE Ancestors(_, _)
Ancestors(tree, n) ==
    IF n = 0 THEN {0} ELSE {n} \cup Ancestors(tree, tree[n].parent)

\* directory n of the source tree has a documentable file in its subtree: a
\* file that is not skipped and lies below no skipped directory
HasDocumentableFile(tree, n) ==
    \E f \in 1..Len(tree) :
        /\ tree[f].content.type = FILE
        /\ n \in Ancestors(tree, f)
        /\ \A a \in Ancestors(tree, f) \ {0} : ~_skip_node(tree, a)

RECURSIVE FileDescendant(_, _, _)
FileDescendant(dependencies, docs, d) ==
    \E c \in DOMAIN dependencies :
        /\ dependencies[c] = d
        /\ c \in DOMAIN docs
        /\ docs[c].type = FILE \/ FileDescendant(dependencies, docs, c)

\* C20: every directory document of the output of identify has a child in
\* the output dependencies and a file among its descendants, and a directory
\* whose subtree holds no documentable file is neither in docs nor in
\* dependencies.
C20_DirectoriesHaveFiles ==
    walk.pc = "done" =>
        /\ \A d \in DOMAIN walk.repo.docs :
             walk.repo.docs[d].type = DIRECTORY =>
                 /\ \E c \in DOMAIN walk.repo.dependencies : walk.repo.dependencies[c] = d
                 /\ FileDescendant(walk.repo.dependencies, walk.repo.docs, d)
        /\ \A d \in DOMAIN walk.docs :
             walk.docs[d].type = DIRECTORY /\ ~HasDocumentableFile(walk.repository, walk.entry[d]) =>
                 d \notin DOMAIN walk.repo.docs /\ d \notin DOMAIN walk.repo.dependencies

\* identify has returned a tree that keeps a directory below the root and
\* from which a walked directory was pruned
C20_Witness ==
    /\ walk.pc = "done"
    /\ \E d \in DOMAIN walk.repo.docs : d # 1 /\ walk.repo.docs[d].type = DIRECTORY
    /\ \E d \in DOMAIN walk.docs \ DOMAIN walk.repo.docs : walk.docs[d].type = DIRECTORY

\* C21: for every source tree the repository identify returns is a rooted
\* tree over its docs: root_doc is a key of docs, is a directory and has no
\* parent; every other document has a parent that is in docs; docs and
\* dependencies have the same keys.
C21_RootedTree ==
    walk.pc = "done" =>
        LET repo == walk.repo
        IN  /\ repo.root_doc \in DOMAIN repo.docs
            /\ repo.docs[repo.root_doc].type = DIRECTORY
            /\ repo.dependencies[repo.root_doc] = NoneId
            /\ \A d \in DOMAIN repo.dependencies \ {repo.root_doc} :
                 repo.dependencies[d] \in DOMAIN repo.docs
            /\ DOMAIN repo.docs = DOMAIN repo.dependencies

----------------------------------------------------------------------------
(* Claims about the store *)

\* C22: the repository record and all its document records become visible
\* in one step, whatever their number: no reader sees the repository without
\* all of its documents, or some of its documents without the rest.
C22_AtomicBatchCreate ==
    LET repo == batch.repo
    IN  (repo.id \in DOMAIN repos \/ DOMAIN repo.docs \cap DOMAIN documentation # {}) =>
            /\ repo.id \in DOMAIN repos
            /\ DOMAIN repo.docs \subseteq DOMAIN documentation

----------------------------------------------------------------------------
(* Claims about the text chunker *)

NonBlank(text) == SelectSeq(text, LAMBDA c : c # " ")

\* text is what is left of whole when some of its blanks are removed
RECURSIVE BlanksRemoved(_, _)
BlanksRemoved(text, whole) ==
    IF whole = <<>> THEN text = <<>>
    ELSE \/ text # <<>> /\ Head(text) = Head(whole) /\ BlanksRemoved(Tail(text), Tail(whole))
         \/ Head(whole) = " " /\ BlanksRemoved(text, Tail(whole))

C28_PureAndDeterministic ==
    /\ chunker.pc # "idle" => chunker.seperators = chunker.given
    /\ chunker.pc = "again" =>
         /\ chunker.second.error = chunker.first.error
         /\ chunker.second.chunks = chunker.first.chunks

----------------------------------------------------------------------------
(* Claims about the embedding service *)

\* the vector ids of a sequence of upserts, in the order they were sent
RECURSIVE UpsertedIds(_)
UpsertedIds(upserts) ==
    IF upserts = <<>> THEN <<>> ELSE Head(upserts).ids \o UpsertedIds(Tail(upserts))

\* C23: for a document of any number of chunks, no embedding request has
\* more than 2048 inputs, no upsert has more than 100 vectors or none, and
\* the vector ids are doc_id-0, doc_id-1, ... in this order over all groups.
C23_EmbeddingBatches ==
    /\ \A c \in 1..Len(embed.calls) : embed.calls[c].inputs <= 2048
    /\ \A u \in 1..Len(embed.upserts) :
         Len(embed.upserts[u].ids) >= 1 /\ Len(embed.upserts[u].ids) <= 100
    /\ LET ids == UpsertedIds(embed.upserts)
       IN  \A k \in 1..Len(ids) : ids[k] = k - 1
    /\ embed.pc = "done" => Len(UpsertedIds(embed.upserts)) = embed.chunks

\* a document of more than 2048 chunks is embedded: several embedding
\* requests, a full upsert and a last upsert of fewer than 100 vectors
C23_Witness ==
    /\ embed.pc = "done"
    /\ embed.chunks > 2048
    /\ Len(embed.calls) > 1
    /\ \E u \in 1..Len(embed.upserts) : Len(embed.upserts[u].ids) = 100
    /\ \E u \in 1..Len(embed.upserts) : Len(embed.upserts[u].ids) < 100

C25_CompletedAndOnlyCompleted ==
    [][/\ \A c \in 1..Len(embed'.calls) : embed'.calls[c].status = COMPLETED
       /\ (/\ embed.pc \in {"repo", "doc"}
           /\ embed'.pc \in {"done", "raised"})
          => \A d \in DOMAIN repos[RepoId].docs :
                (d \in DOMAIN documentation /\ documentation[d].status = COMPLETED)
                    => d \in embed'.embedded]_vars

----------------------------------------------------------------------------
(* Claims about ownership *)

\* C29: a request of a user on a stored document or repository of which that
\* user is not the stored owner is answered with 401 and changes nothing that
\* is stored: get, delete and regenerate of a document, generation and search
\* of a repository.
C29_OnlyOwner ==
    [][\A u \in Strangers :
        /\ \A d \in DOMAIN documentation :
             (/\ documentation[d].owner # u
              /\ \/ get_file_docs(u, d)
                 \/ delete_user_documentation(u, d)
                 \/ regenerate_file_docs(u, d))
             => /\ response'.code = 401
                /\ UNCHANGED <<documentation, repos, runs, fileJobs, vectors>>
        /\ (/\ RepoId \in DOMAIN repos
            /\ repos[RepoId].owner # u
            /\ generate_repo_docs(u) \/ search_repo(u))
           => /\ response'.code = 401
              /\ UNCHANGED <<documentation, repos, runs, fileJobs, vectors>>]_vars

----------------------------------------------------------------------------
(* Claims about simple_chunk and the post-processing of chunk *)

\* C36: for a text whose single characters fit in chunk_size, simple_chunk
\* returns the even split into the least number of pieces, from
\* ceil(tokens / chunk_size) on, in which every piece fits: the pieces
\* concatenate to the text, their lengths differ by at most 1, and the loop
\* ends at the latest with one piece per character.
C36_SimpleChunkEvenAndFitting ==
    chunker.pc = "simple" =>
        LET self == chunker.self
            text == chunker.text
            chunks == chunker.first.chunks
            estimated == (_len(text) + self.chunk_size - 1) \div self.chunk_size
            Fit(pieces) == \A j \in 1..Len(pieces) : _len(pieces[j]) <= self.chunk_size
        IN  (\A i \in 1..Len(text) : _len(<<text[i]>>) <= self.chunk_size) =>
                /\ Len(chunks) >= estimated
                /\ Len(chunks) <= (IF estimated > Len(text) THEN estimated ELSE Len(text))
                /\ Fit(chunks)
                /\ \A n \in estimated..(Len(chunks) - 1) : ~Fit(split_text_evenly(text, n))
                /\ Concat(chunks) = text
                /\ \A i, j \in 1..Len(chunks) : Len(chunks[i]) - Len(chunks[j]) <= 1

\* the estimate did not fit and the loop added a piece; the pieces have two
\* different lengths
C36_Witness ==
    /\ chunker.pc = "simple"
    /\ Len(chunker.first.chunks) >
          (_len(chunker.text) + chunker.self.chunk_size - 1) \div chunker.self.chunk_size
    /\ \E i, j \in 1..Len(chunker.first.chunks) :
          Len(chunker.first.chunks[i]) # Len(chunker.first.chunks[j])

\* C37: chunk returns normally for every input: the post-processing is
\* defined at every position, also when no output chunk exists yet because
\* the pieces before were merged forward or dropped.
C37_PostProcessingDefined ==
    chunker.pc \in {"called", "again"} => chunker.first.error = None

----------------------------------------------------------------------------
(* Claims about the vectors of one document *)

\* the chunks that a sequence of upserts carries, in the order they were sent
RECURSIVE UpsertedChunks(_)
UpsertedChunks(upserts) ==
    IF upserts = <<>> THEN <<>>
    ELSE Head(upserts).chunk_content \o UpsertedChunks(Tail(upserts))

\* C38: generate_markdown_embeddings_for_doc upserts every chunk exactly
\* once: at the end of every embedding group all vectors made so far have been
\* sent, and when it has returned there are as many vectors as chunks and the
\* k-th of them has the id doc_id-k and the text of the k-th chunk.
C38_EveryChunkUpsertedOnce ==
    LET ids == UpsertedIds(embed.upserts)
        texts == UpsertedChunks(embed.upserts)
    IN  /\ embed.pc \in {"doc", "done"} => Len(texts) = embed.sent
        /\ embed.pc = "done" =>
              /\ Len(ids) = embed.chunks
              /\ Len(texts) = embed.chunks
              /\ \A k \in 1..embed.chunks : ids[k] = k - 1 /\ texts[k] = k - 1

\* a document of several embedding groups has been embedded: some upsert
\* starts with a chunk that is not in the first group
C38_Witness ==
    /\ embed.pc = "done"
    /\ \E u \in 1..Len(embed.upserts) :
          /\ embed.upserts[u].chunk_content[1] >= embedding_group
          /\ embed.upserts[u].ids[1] = embed.upserts[u].chunk_content[1]

----------------------------------------------------------------------------
(* Claims about the documents stored inside the repository record *)

\* C39: the status of a document inside the docs of the repository record
\* equals the status of the same document in the documentation collection
\* whenever no update is under way, so the listing, the formatted tree and
\* the embedding traversal read the statuses that generate_doc wrote.
C39_ProjectionFollowsDocumentation ==
    RepoId \in DOMAIN repos =>
        \A d \in DOMAIN repos[RepoId].docs :
            d \in DOMAIN documentation =>
                repos[RepoId].docs[d].status = documentation[d].status

----------------------------------------------------------------------------
(* Claims about the cancellation of a scheduler run *)

\* C40: every scheduler run carries a cancel token of its repository, and
\* once cancellation is requested the run starts no further batch and no
\* further round, and does not use the results of the calls in flight: its
\* indegree map stays as it is.
C40_CancelStopsAtBoundary ==
    [][\A r \in 1..Len(runs) :
          /\ "cancel_token" \in DOMAIN runs[r]
          /\ runs[r].cancel_token = "requested" =>
                /\ runs'[r].i = runs[r].i
                /\ runs'[r].round = runs[r].round
                /\ runs'[r].indegree = runs[r].indegree]_vars

====
